---- MODULE Spec2Model ----
(***************************************************************************)
(* Spatix spatial normalization and bounding-box catalog.                  *)
(*                                                                         *)
(* The dataset catalog (backend/database.py, backend/api/datasets.py),     *)
(* the spatial query endpoints (backend/api/spatial.py), the bounds        *)
(* extractor and the format normalizer (backend/api/normalize.py,          *)
(* backend/api/maps.py) as state machines.                                 *)
(*                                                                         *)
(* Longitudes and latitudes are whole degrees.  JSON objects are records,  *)
(* JSON arrays are sequences, Python None is the string "None", a key a    *)
(* dict does not hold is a field the record does not have.                 *)
(***************************************************************************)
EXTENDS Integers, Sequences, FiniteSets, TLC

VARIABLES datasets, response, input, output, contributions, points_ledger, calls, ip_requests, now

vars == <<datasets, response, input, output, contributions, points_ledger, calls, ip_requests, now>>

(***************************************************************************)
(* Bounds of the model.                                                    *)
(***************************************************************************)
MaxDatasets == 2
MaxCount == 1
MaxContributions == 3
MaxCoord == 2

None == "None"

(***************************************************************************)
(* Generic helpers.                                                        *)
(***************************************************************************)
Range(s) == {s[i] : i \in DOMAIN s}

SetMin(S) == CHOOSE x \in S : \A y \in S : x <= y

SetMax(S) == CHOOSE x \in S : \A y \in S : x >= y

\* Python min(list) / max(list) on a non-empty list of numbers.
min(s) == SetMin(Range(s))

max(s) == SetMax(Range(s))

RECURSIVE Flatten(_)
\* Concatenation of a sequence of sequences, in order.
Flatten(ss) == IF ss = <<>> THEN <<>> ELSE Head(ss) \o Flatten(Tail(ss))

\* dict.get(key, default) on a record.
Get(d, key, default) == IF key \in DOMAIN d THEN d[key] ELSE default

Abs(x) == IF x < 0 THEN -x ELSE x

\* A call ends in a value or in an exception.
Ok(value) == [ok |-> TRUE, value |-> value]

HTTPException(status_code, detail) ==
    [ok |-> FALSE, status |-> status_code, detail |-> detail]

\* An exception that is not an HTTPException leaves the function.
Raised(exception) == [ok |-> FALSE, status |-> 500, detail |-> exception]

(***************************************************************************)
(* GeoJSON values.                                                         *)
(***************************************************************************)
Point(x, y) == [type |-> "Point", coordinates |-> <<x, y>>]

LineString(cs) == [type |-> "LineString", coordinates |-> cs]

MultiPoint(cs) == [type |-> "MultiPoint", coordinates |-> cs]

Polygon(rings) == [type |-> "Polygon", coordinates |-> rings]

MultiLineString(ls) == [type |-> "MultiLineString", coordinates |-> ls]

MultiPolygon(ps) == [type |-> "MultiPolygon", coordinates |-> ps]

GeometryCollection(gs) == [type |-> "GeometryCollection", geometries |-> gs]

Feature(props, geom) == [type |-> "Feature", properties |-> props, geometry |-> geom]

\* A feature whose geometry member is null.
FeatureNoGeometry(props) == [type |-> "Feature", properties |-> props]

FeatureCollection(fs) == [type |-> "FeatureCollection", features |-> fs]

\* The geometry types in alphabetical order, as sorted() orders them.
TypeRank ==
    [GeometryCollection |-> 1, LineString |-> 2, MultiLineString |-> 3,
     MultiPoint |-> 4, MultiPolygon |-> 5, Point |-> 6, Polygon |-> 7]

RECURSIVE SortedTypes(_)
\* sorted(geom_types) for a set of geometry type names.
SortedTypes(S) ==
    IF S = {} THEN <<>>
    ELSE LET t == CHOOSE a \in S : \A b \in S : TypeRank[a] <= TypeRank[b]
         IN <<t>> \o SortedTypes(S \ {t})

RECURSIVE Join(_, _)
\* sep.join(strs)
Join(sep, strs) ==
    IF strs = <<>> THEN ""
    ELSE IF Len(strs) = 1 THEN strs[1]
    ELSE strs[1] \o sep \o Join(sep, Tail(strs))

(***************************************************************************)
(* len(json.dumps(data)) for the GeoJSON values above (default separators  *)
(* ", " and ": ", whole-number coordinates, string or null properties).    *)
(***************************************************************************)
RECURSIVE SumSeq(_)
SumSeq(s) == IF s = <<>> THEN 0 ELSE Head(s) + SumSeq(Tail(s))

RECURSIVE DigitCount(_)
DigitCount(n) == IF n < 10 THEN 1 ELSE 1 + DigitCount(n \div 10)

JsonLenInt(n) == IF n < 0 THEN 1 + DigitCount(-n) ELSE DigitCount(n)

JsonLenStr(s) == IF s = None THEN 4 ELSE Len(s) + 2

\* A list whose items have the given serialized lengths.
JsonLenList(lens) ==
    IF lens = <<>> THEN 2 ELSE 2 + SumSeq(lens) + 2 * (Len(lens) - 1)

\* A dict whose members are <<key, serialized value length>>.
JsonLenDict(members) ==
    JsonLenList([i \in DOMAIN members |-> Len(members[i][1]) + 4 + members[i][2]])

RECURSIVE JsonLenCoords(_, _)
\* A coordinate array nested depth deep (depth 1 is one position).
JsonLenCoords(c, depth) ==
    IF depth = 1 THEN JsonLenList([i \in DOMAIN c |-> JsonLenInt(c[i])])
    ELSE JsonLenList([i \in DOMAIN c |-> JsonLenCoords(c[i], depth - 1)])

CoordDepth ==
    [Point |-> 1, LineString |-> 2, MultiPoint |-> 2, Polygon |-> 3,
     MultiLineString |-> 3, MultiPolygon |-> 4]

RECURSIVE JsonLenGeometry(_)
JsonLenGeometry(g) ==
    IF g.type = "GeometryCollection"
    THEN JsonLenDict(<< <<"type", JsonLenStr(g.type)>>,
                        <<"geometries",
                          JsonLenList([i \in DOMAIN g.geometries |->
                                          JsonLenGeometry(g.geometries[i])])>> >>)
    ELSE JsonLenDict(<< <<"type", JsonLenStr(g.type)>>,
                        <<"coordinates",
                          JsonLenCoords(g.coordinates, CoordDepth[g.type])>> >>)

JsonLenProps(p) ==
    LET keys == DOMAIN p
        ks == CHOOSE s \in [1..Cardinality(keys) -> keys] : Range(s) = keys
    IN JsonLenDict([i \in DOMAIN ks |-> <<ks[i], JsonLenStr(p[ks[i]])>>])

JsonLenFeature(f) ==
    JsonLenDict(<< <<"type", JsonLenStr(f.type)>>,
                   <<"properties", JsonLenProps(f.properties)>>,
                   <<"geometry",
                     IF "geometry" \in DOMAIN f THEN JsonLenGeometry(f.geometry)
                     ELSE 4>> >>)

\* len(json.dumps(data)) for a FeatureCollection.
JsonLen(data) ==
    JsonLenDict(<< <<"type", JsonLenStr(data.type)>>,
                   <<"features",
                     JsonLenList([i \in DOMAIN data.features |->
                                     JsonLenFeature(data.features[i])])>> >>)

(***************************************************************************)
(* Dataset validation: backend/api/datasets.py.                            *)
(***************************************************************************)
DATASET_CATEGORIES ==
    {"boundaries", "infrastructure", "environment", "demographics", "business",
     "transportation", "health", "education", "culture", "public-safety",
     "custom", "other"}

MAX_FILE_SIZE_BYTES == 50 * 1024 * 1024

MAX_FEATURES == 100000

\* Appends the positions of one ring, line or point list to lngs and lats.
ExtendCoords(acc, cs) ==
    LET ok == SelectSeq(cs, LAMBDA c : Len(c) >= 2)
    IN [lngs |-> acc.lngs \o [i \in DOMAIN ok |-> ok[i][1]],
        lats |-> acc.lats \o [i \in DOMAIN ok |-> ok[i][2]]]

\* _extract_coords(geom, lngs, lats): the two lists after the call.
_extract_coords(geom, lngs, lats) ==
    LET gt == Get(geom, "type", None)
        coords == Get(geom, "coordinates", <<>>)
        acc == [lngs |-> lngs, lats |-> lats]
    IN IF gt = "Point" /\ Len(coords) >= 2
       THEN [lngs |-> Append(lngs, coords[1]), lats |-> Append(lats, coords[2])]
       ELSE IF gt \in {"LineString", "MultiPoint"}
       THEN ExtendCoords(acc, coords)
       ELSE IF gt \in {"Polygon", "MultiLineString"}
       THEN ExtendCoords(acc, Flatten(coords))
       ELSE IF gt = "MultiPolygon"
       THEN ExtendCoords(acc, Flatten(Flatten(coords)))
       ELSE acc

\* num / den cut after three decimals, in thousandths.
Truncate3(num, den) == (1000 * num) \div den

\* round(num / den, 3) in thousandths (round half to even).
Round3(num, den) ==
    LET q == (1000 * num) \div den
        r == (1000 * num) % den
    IN IF 2 * r < den THEN q
       ELSE IF 2 * r > den THEN q + 1
       ELSE IF q % 2 = 0 THEN q ELSE q + 1

RECURSIVE ExtractAll(_, _)
\* The loop of validate_geojson over the features: geom_types, lngs, lats.
ExtractAll(features, acc) ==
    IF features = <<>> THEN acc
    ELSE LET f == Head(features)
             geom == Get(f, "geometry", <<>>)
         IN IF geom = <<>> \/ Get(geom, "type", None) = None
            THEN ExtractAll(Tail(features), acc)
            ELSE LET c == _extract_coords(geom, acc.lngs, acc.lats)
                 IN ExtractAll(Tail(features),
                               [geom_types |-> acc.geom_types \cup {geom.type},
                                lngs |-> c.lngs, lats |-> c.lats])

\* validate_geojson with the whole-world box of _calculate_bbox in place of
\* the refusal of a collection without coordinates.
validate_geojsonDefaultBBox(data) ==
    LET features == Get(data, "features", <<>>)
        data_size == JsonLen(data)
        ex == ExtractAll(features, [geom_types |-> {}, lngs |-> <<>>, lats |-> <<>>])
        total_props == UNION {DOMAIN Get(features[i], "properties", <<>>) :
                                 i \in DOMAIN features}
        complete_count ==
            Cardinality({i \in DOMAIN features :
                \A k \in total_props :
                    Get(Get(features[i], "properties", <<>>), k, None) # None})
        completeness ==
            IF total_props # {} THEN Round3(complete_count, Len(features)) ELSE 1000
    IN IF Get(data, "type", None) # "FeatureCollection"
       THEN [ok |-> FALSE, status |-> 400,
             detail |-> "Data must be a GeoJSON FeatureCollection"]
       ELSE IF features = <<>>
       THEN [ok |-> FALSE, status |-> 400,
             detail |-> "FeatureCollection must have at least 1 feature"]
       ELSE IF Len(features) > MAX_FEATURES
       THEN [ok |-> FALSE, status |-> 400,
             detail |-> "Maximum 100,000 features per dataset"]
       ELSE IF data_size > MAX_FILE_SIZE_BYTES
       THEN [ok |-> FALSE, status |-> 400, detail |-> "Dataset too large"]
       ELSE IF ex.lngs = <<>>
       THEN [ok |-> TRUE,
             feature_count |-> Len(features),
             geometry_types |-> Join(",", SortedTypes(ex.geom_types)),
             bbox_west |-> -180,
             bbox_south |-> -90,
             bbox_east |-> 180,
             bbox_north |-> 90,
             file_size_bytes |-> data_size,
             completeness |-> completeness]
       ELSE [ok |-> TRUE,
             feature_count |-> Len(features),
             geometry_types |-> Join(",", SortedTypes(ex.geom_types)),
             bbox_west |-> min(ex.lngs),
             bbox_south |-> min(ex.lats),
             bbox_east |-> max(ex.lngs),
             bbox_north |-> max(ex.lats),
             file_size_bytes |-> data_size,
             completeness |-> completeness]

\* validate_geojson(data): the computed metadata, or the 400 it raises.
validate_geojson(data) ==
    LET features == Get(data, "features", <<>>)
        data_size == JsonLen(data)
        ex == ExtractAll(features, [geom_types |-> {}, lngs |-> <<>>, lats |-> <<>>])
        total_props == UNION {DOMAIN Get(features[i], "properties", <<>>) :
                                 i \in DOMAIN features}
        complete_count ==
            Cardinality({i \in DOMAIN features :
                \A k \in total_props :
                    Get(Get(features[i], "properties", <<>>), k, None) # None})
        completeness ==
            IF total_props # {} THEN Round3(complete_count, Len(features)) ELSE 1000
    IN IF Get(data, "type", None) # "FeatureCollection"
       THEN [ok |-> FALSE, status |-> 400,
             detail |-> "Data must be a GeoJSON FeatureCollection"]
       ELSE IF features = <<>>
       THEN [ok |-> FALSE, status |-> 400,
             detail |-> "FeatureCollection must have at least 1 feature"]
       ELSE IF Len(features) > MAX_FEATURES
       THEN [ok |-> FALSE, status |-> 400,
             detail |-> "Maximum 100,000 features per dataset"]
       ELSE IF data_size > MAX_FILE_SIZE_BYTES
       THEN [ok |-> FALSE, status |-> 400, detail |-> "Dataset too large"]
       ELSE IF ex.lngs = <<>>
       THEN [ok |-> FALSE, status |-> 400,
             detail |-> "No valid coordinates found in features"]
       ELSE [ok |-> TRUE,
             feature_count |-> Len(features),
             geometry_types |-> Join(",", SortedTypes(ex.geom_types)),
             bbox_west |-> min(ex.lngs),
             bbox_south |-> min(ex.lats),
             bbox_east |-> max(ex.lngs),
             bbox_north |-> max(ex.lats),
             file_size_bytes |-> data_size,
             completeness |-> completeness]

(***************************************************************************)
(* Request inputs of the catalog operations.                               *)
(***************************************************************************)
DatasetIds == 1..MaxDatasets

\* Uploaded collections: bbox (0,0,0,0), (0,1,1,2), (1,0,2,1) and one that
\* holds a GeometryCollection next to a Point.
BodyPoints ==
    FeatureCollection(<<Feature([name |-> "a"], Point(0, 0)),
                        FeatureNoGeometry([name |-> "b"])>>)

BodyLines ==
    FeatureCollection(<<Feature([name |-> "a"], LineString(<<<<0, 1>>, <<1, 2>>>>)),
                        Feature([name |-> None], MultiPoint(<<<<1, 1>>, <<0, 2>>>>))>>)

BodyPolygons ==
    FeatureCollection(
        <<Feature([name |-> "a"],
                  Polygon(<<<<<<1, 0>>, <<2, 0>>, <<2, 1>>, <<1, 0>>>>>>)),
          Feature([kind |-> "b"], MultiLineString(<<<<<<1, 1>>, <<2, 1>>>>>>)),
          Feature([name |-> "c", kind |-> "d"],
                  MultiPolygon(<<<<<<<<1, 0>>, <<1, 1>>, <<2, 1>>, <<1, 0>>>>>>>>))>>)

BodyCollection ==
    FeatureCollection(
        <<Feature([name |-> "a"], Point(2, 2)),
          Feature([name |-> "b"],
                  GeometryCollection(<<Point(0, 0), LineString(<<<<0, 1>>, <<1, 0>>>>)>>))>>)

ValidBodies == {BodyPoints, BodyLines, BodyPolygons, BodyCollection}

\* One feature more than validate_geojson admits.
BodyTooMany ==
    FeatureCollection([i \in 1..(MAX_FEATURES + 1) |-> Feature([name |-> "a"], Point(0, 0))])

RECURSIVE Doubled(_, _)
\* s repeated 2^n times.
Doubled(s, n) == IF n = 0 THEN s ELSE Doubled(s \o s, n - 1)

\* A property value of 64 MiB: the serialized collection exceeds 50 MB.
BodyTooLarge ==
    FeatureCollection(<<Feature([name |-> Doubled("a", 26)], Point(0, 0))>>)

\* Payloads validate_geojson rejects.
InvalidBodies ==
    {Feature([name |-> "a"], Point(0, 0)),
     FeatureCollection(<<>>),
     FeatureCollection(<<FeatureNoGeometry([name |-> "a"])>>),
     FeatureCollection(<<Feature([name |-> "a"], GeometryCollection(<<Point(1, 1)>>))>>),
     BodyTooMany,
     BodyTooLarge}

CreateCategories == {"boundaries", "other", "bogus"}

UserIds == {"u1", "u2"}

AuthHeaders == {None, "Basic x", "Bearer bad", "Bearer tok1", "Bearer tok2"}

\* authorization.startswith("Bearer ")
StartsWithBearer(authorization) ==
    authorization \in {"Bearer bad", "Bearer tok1", "Bearer tok2"}

\* verify_jwt(authorization.split(" ")[1]): the payload, <<>> when invalid.
verify_jwt(authorization) ==
    IF authorization = "Bearer tok1" THEN [sub |-> "u1", email |-> "u1@x.io"]
    ELSE IF authorization = "Bearer tok2" THEN [sub |-> "u2", email |-> "u2@x.io"]
    ELSE <<>>

Idle == [kind |-> "none", status |-> 0]

\* _normalize_ip_requests, _spatial_ip_requests and _dataset_ip_requests
\* at import: three empty dictionaries.
NoRequests == [normalize |-> <<>>, spatial |-> <<>>, dataset |-> <<>>]

\* Value of input and output while no pure function is under test.
NoValue == [kind |-> "none"]

\* A request refused by the per-IP rate limiter.
RateLimited(kind) == [kind |-> kind, status |-> 429]

(***************************************************************************)
(* The persistence layer: backend/database.py.                             *)
(***************************************************************************)
\* create_dataset: INSERT INTO datasets, the other columns at their defaults.
db_create_dataset(dataset_id, title, category, data, meta, uploader_id, uploader_email) ==
    [id |-> dataset_id,
     uploader_id |-> uploader_id,
     uploader_email |-> uploader_email,
     title |-> title,
     category |-> category,
     data |-> data,
     feature_count |-> meta.feature_count,
     geometry_types |-> meta.geometry_types,
     bbox_west |-> meta.bbox_west,
     bbox_south |-> meta.bbox_south,
     bbox_east |-> meta.bbox_east,
     bbox_north |-> meta.bbox_north,
     file_size_bytes |-> meta.file_size_bytes,
     completeness |-> meta.completeness,
     query_count |-> 0,
     used_in_maps |-> 0,
     public |-> TRUE,
     reputation_score |-> 0]

\* The table with one more row.
Insert(table, row) ==
    [d \in DOMAIN table \cup {row.id} |-> IF d = row.id THEN row ELSE table[d]]

\* DELETE FROM datasets WHERE id = dataset_id.
db_delete_dataset(table, dataset_id) ==
    [d \in DOMAIN table \ {dataset_id} |-> table[d]]

\* UPDATE datasets SET the fields that are given WHERE id = dataset_id.
db_update_dataset(table, dataset_id, title, category) ==
    [table EXCEPT ![dataset_id] =
        [@ EXCEPT !.title = IF title # None THEN title ELSE @,
                  !.category = IF category # None THEN category ELSE @]]

\* UPDATE datasets SET query_count = query_count + 1, without the WHERE.
increment_every_query_count(table, dataset_id) ==
    [d \in DOMAIN table |-> [table[d] EXCEPT !.query_count = @ + 1]]

\* An increment that moves both counters of the row.
increment_both_counters(table, dataset_id) ==
    [table EXCEPT ![dataset_id] =
        [@ EXCEPT !.query_count = @ + 1, !.used_in_maps = @ + 1]]

\* UPDATE datasets SET query_count = query_count + 1 WHERE id = dataset_id.
increment_dataset_query_count(table, dataset_id) ==
    [table EXCEPT ![dataset_id].query_count = @ + 1]

\* UPDATE datasets SET used_in_maps = used_in_maps + 1 WHERE id = dataset_id.
increment_dataset_used_in_maps(table, dataset_id) ==
    [table EXCEPT ![dataset_id].used_in_maps = @ + 1]

\* record_contribution: INSERT INTO contributions, the rows in insertion order.
record_contribution(rows, action, resource_id, points_awarded, user_id, user_email) ==
    Append(rows, [action |-> action, resource_type |-> "dataset",
                  resource_id |-> resource_id, points_awarded |-> points_awarded,
                  user_id |-> user_id, user_email |-> user_email])

\* get_points(entity_type, entity_id).get("total_points", 0) for a user.
db_get_points(ledger, entity_id) ==
    IF entity_id \in DOMAIN ledger THEN ledger[entity_id].total_points ELSE 0

\* award_points("user", entity_id, points, field): the first award inserts
\* the row with the counters at their defaults, a later one adds to it.
award_points(ledger, entity_id, points, field) ==
    IF entity_id \notin DOMAIN ledger
    THEN [e \in DOMAIN ledger \cup {entity_id} |->
             IF e = entity_id
             THEN [total_points |-> points, datasets_uploaded |-> 0]
             ELSE ledger[e]]
    ELSE [ledger EXCEPT ![entity_id] =
             [total_points |-> @.total_points + points,
              datasets_uploaded |-> IF field = "datasets_uploaded"
                                    THEN @.datasets_uploaded + 1
                                    ELSE @.datasets_uploaded]]

(***************************************************************************)
(* Contribution points: backend/api/contributions.py.                      *)
(***************************************************************************)
POINTS_DATASET_UPLOAD == 10

\* <<threshold, multiplier>>, highest tier first.
CONTRIBUTION_TIERS == <<<<500, 3>>, <<100, 2>>, <<0, 1>>>>

\* get_points_multiplier("user", entity_id): the first tier reached.
get_points_multiplier(ledger, entity_id) ==
    LET total == db_get_points(ledger, entity_id)
        reached == {i \in DOMAIN CONTRIBUTION_TIERS : total >= CONTRIBUTION_TIERS[i][1]}
    IN IF reached = {} THEN 1 ELSE CONTRIBUTION_TIERS[SetMin(reached)][2]

(***************************************************************************)
(* Catalog endpoints: backend/api/datasets.py.                             *)
(***************************************************************************)
\* POST /api/datasets
create_dataset(title, category, data, authorization, allowed) ==
    LET cat == IF category # None /\ category \notin DATASET_CATEGORIES
               THEN "other" ELSE category
        meta == validate_geojson(data)
        payload == IF StartsWithBearer(authorization)
                   THEN verify_jwt(authorization) ELSE <<>>
        user_id == Get(payload, "sub", None)
        user_email == Get(payload, "email", None)
        pts == IF user_id # None
               THEN POINTS_DATASET_UPLOAD * get_points_multiplier(points_ledger, user_id)
               ELSE 0
    IN /\ UNCHANGED <<input, output, calls, ip_requests, now>>
       /\ IF ~allowed
          THEN /\ response' = RateLimited("create_dataset")
               /\ UNCHANGED <<datasets, contributions, points_ledger>>
          ELSE IF ~meta.ok
          THEN /\ response' = [kind |-> "create_dataset", status |-> meta.status,
                               detail |-> meta.detail]
               /\ UNCHANGED <<datasets, contributions, points_ledger>>
          ELSE \E dataset_id \in DatasetIds \ DOMAIN datasets :
                 /\ Len(contributions) < MaxContributions
                 /\ datasets' = Insert(datasets,
                        db_create_dataset(dataset_id, title, cat, data, meta,
                                          user_id, user_email))
                 /\ contributions' = record_contribution(contributions,
                        "dataset_upload", dataset_id, pts, user_id, user_email)
                 /\ points_ledger' =
                        IF user_id # None
                        THEN award_points(points_ledger, user_id, pts, "datasets_uploaded")
                        ELSE points_ledger
                 /\ response' = [kind |-> "create_dataset", status |-> 200,
                                 id |-> dataset_id]

\* GET /api/datasets/{dataset_id}/data
get_dataset_data(dataset_id) ==
    /\ UNCHANGED <<input, output, contributions, points_ledger, calls, ip_requests, now>>
    /\ IF dataset_id \notin DOMAIN datasets
       THEN /\ response' = [kind |-> "get_dataset_data", status |-> 404]
            /\ UNCHANGED datasets
       ELSE /\ datasets[dataset_id].query_count < MaxCount
            /\ datasets' = increment_dataset_query_count(datasets, dataset_id)
            /\ response' = [kind |-> "get_dataset_data", status |-> 200,
                            geojson |-> datasets[dataset_id].data]

\* c[:2]
FirstTwo(c) == SubSeq(c, 1, IF Len(c) < 2 THEN Len(c) ELSE 2)

\* _flat_coords(geom): the list of c[:2] over the coordinates of the six
\* coordinate-bearing types, empty for every other type.
_flat_coords(geom) ==
    LET gt == Get(geom, "type", "")
        coords == Get(geom, "coordinates", <<>>)
    IN IF gt = "Point" THEN <<FirstTwo(coords)>>
       ELSE IF gt \in {"LineString", "MultiPoint"}
       THEN [i \in DOMAIN coords |-> FirstTwo(coords[i])]
       ELSE IF gt \in {"Polygon", "MultiLineString"}
       THEN [i \in DOMAIN Flatten(coords) |-> FirstTwo(Flatten(coords)[i])]
       ELSE IF gt = "MultiPolygon"
       THEN [i \in DOMAIN Flatten(Flatten(coords)) |->
                FirstTwo(Flatten(Flatten(coords))[i])]
       ELSE <<>>

RECURSIVE AnyInBBox(_, _, _, _, _, _)
\* for lng, lat in coords: True at the first pair inside the box,
\* ValueError at an entry that does not unpack into two values.
AnyInBBox(coords, k, w, s, e, n) ==
    IF k > Len(coords) THEN "False"
    ELSE IF Len(coords[k]) # 2 THEN "ValueError"
    ELSE IF w <= coords[k][1] /\ coords[k][1] <= e /\ s <= coords[k][2] /\ coords[k][2] <= n
    THEN "True"
    ELSE AnyInBBox(coords, k + 1, w, s, e, n)

\* _feature_in_bbox(f.get("geometry", {}), w, s, e, n) for the feature f:
\* a null geometry has no get.
_feature_in_bbox(f, w, s, e, n) ==
    IF "geometry" \notin DOMAIN f THEN "AttributeError"
    ELSE AnyInBBox(_flat_coords(f.geometry), 1, w, s, e, n)

\* The body of GET /api/dataset/{dataset_id}/geojson for the stored
\* collection and the bbox parameter: absent, refused by float(), or its
\* parts [float(x) for x in bbox.split(",")].
FilteredByBBox(geojson, bbox) ==
    LET fs == Get(geojson, "features", <<>>)
        hit == [i \in DOMAIN fs |->
                   _feature_in_bbox(fs[i], bbox.parts[1], bbox.parts[2],
                                    bbox.parts[3], bbox.parts[4])]
        raised == {i \in DOMAIN fs : hit[i] \notin {"True", "False"}}
    IN IF bbox.kind # "parts" THEN Ok(geojson)
       ELSE IF Len(bbox.parts) # 4 THEN Ok(geojson)
       ELSE IF raised = {}
       THEN Ok(FeatureCollection(SelectSeq(fs,
                LAMBDA f : _feature_in_bbox(f, bbox.parts[1], bbox.parts[2],
                                            bbox.parts[3], bbox.parts[4]) = "True")))
       ELSE IF hit[SetMin(raised)] = "ValueError" THEN Ok(geojson)
       ELSE Raised(hit[SetMin(raised)])

\* GET /api/dataset/{dataset_id}/geojson without credentials.
get_dataset_geojson_compat(dataset_id, parts) ==
    /\ UNCHANGED <<input, output, contributions, points_ledger, calls, ip_requests, now>>
    /\ IF dataset_id \notin DOMAIN datasets
       THEN /\ response' = [kind |-> "get_dataset_geojson_compat", status |-> 404]
            /\ UNCHANGED datasets
       ELSE /\ datasets[dataset_id].query_count < MaxCount
            /\ datasets' = increment_dataset_query_count(datasets, dataset_id)
            /\ response' =
                 IF FilteredByBBox(datasets[dataset_id].data, parts).ok
                 THEN [kind |-> "get_dataset_geojson_compat", status |-> 200,
                       id |-> dataset_id, bbox |-> parts,
                       geojson |-> FilteredByBBox(datasets[dataset_id].data, parts).value]
                 ELSE [kind |-> "get_dataset_geojson_compat", status |-> 500,
                       id |-> dataset_id, bbox |-> parts,
                       detail |-> FilteredByBBox(datasets[dataset_id].data, parts).detail]

\* An owner check that lets every valid token through.
OwnerStatusAnyToken(ds, authorization) ==
    IF authorization = None \/ ~StartsWithBearer(authorization) THEN 401
    ELSE IF verify_jwt(authorization) = <<>> THEN 401
    ELSE 200

\* The owner check shared by update_dataset and delete_dataset: the status
\* the request is refused with, 200 when it goes through.
OwnerStatus(ds, authorization) ==
    LET payload == verify_jwt(authorization)
        user_id == Get(payload, "sub", None)
        user_email == Get(payload, "email", None)
    IN IF authorization = None \/ ~StartsWithBearer(authorization) THEN 401
       ELSE IF payload = <<>> THEN 401
       ELSE IF ds.uploader_id # user_id /\ ds.uploader_email # user_email THEN 403
       ELSE 200

\* PUT /api/datasets/{dataset_id}
update_dataset(dataset_id, title, category, authorization) ==
    /\ UNCHANGED <<input, output, contributions, points_ledger, calls, ip_requests, now>>
    /\ IF dataset_id \notin DOMAIN datasets
       THEN /\ response' = [kind |-> "update_dataset", status |-> 404]
            /\ UNCHANGED datasets
       ELSE LET st == OwnerStatus(datasets[dataset_id], authorization)
            IN IF st # 200
               THEN /\ response' = [kind |-> "update_dataset", status |-> st]
                    /\ UNCHANGED datasets
               ELSE IF category # None /\ category \notin DATASET_CATEGORIES
               THEN /\ response' = [kind |-> "update_dataset", status |-> 400]
                    /\ UNCHANGED datasets
               ELSE IF title = None /\ category = None
               THEN /\ response' = [kind |-> "update_dataset", status |-> 400]
                    /\ UNCHANGED datasets
               ELSE /\ datasets' = db_update_dataset(datasets, dataset_id,
                                                     title, category)
                    /\ response' = [kind |-> "update_dataset", status |-> 200]

\* DELETE /api/datasets/{dataset_id}
delete_dataset(dataset_id, authorization) ==
    /\ UNCHANGED <<input, output, contributions, points_ledger, calls, ip_requests, now>>
    /\ IF dataset_id \notin DOMAIN datasets
       THEN /\ response' = [kind |-> "delete_dataset", status |-> 404]
            /\ UNCHANGED datasets
       ELSE LET st == OwnerStatus(datasets[dataset_id], authorization)
            IN IF st # 200
               THEN /\ response' = [kind |-> "delete_dataset", status |-> st]
                    /\ UNCHANGED datasets
               ELSE /\ datasets' = db_delete_dataset(datasets, dataset_id)
                    /\ response' = [kind |-> "delete_dataset", status |-> 200]

(***************************************************************************)
(* The seed script: backend/seed_datasets.py.                              *)
(***************************************************************************)
SeedId == 1

\* One entry of SEED_DATASETS: Point features only.
SeedData ==
    FeatureCollection(<<Feature([name |-> "United States"], Point(1, 0)),
                        Feature([name |-> "Canada"], Point(2, 2))>>)

\* _calculate_bbox(data)
_calculate_bbox(data) ==
    LET fs == Get(data, "features", <<>>)
        cs == [i \in DOMAIN fs |->
                  Get(Get(fs[i], "geometry", <<>>), "coordinates", <<>>)]
        ok == SelectSeq(cs, LAMBDA c : Len(c) >= 2)
        lngs == [i \in DOMAIN ok |-> ok[i][1]]
        lats == [i \in DOMAIN ok |-> ok[i][2]]
    IN IF lngs = <<>> THEN <<-180, -90, 180, 90>>
       ELSE <<min(lngs), min(lats), max(lngs), max(lats)>>

\* seed()
seed ==
    /\ SeedId \notin DOMAIN datasets
    /\ LET bbox == _calculate_bbox(SeedData)
           fs == SeedData.features
           geom_types == {fs[i].geometry.type : i \in DOMAIN fs}
           meta == [feature_count |-> Len(fs),
                    geometry_types |-> Join(",", SortedTypes(geom_types)),
                    bbox_west |-> bbox[1], bbox_south |-> bbox[2],
                    bbox_east |-> bbox[3], bbox_north |-> bbox[4],
                    file_size_bytes |-> JsonLen(SeedData),
                    completeness |-> 1000]
       IN datasets' = Insert(datasets,
              db_create_dataset(SeedId, "World Countries", "boundaries", SeedData,
                                meta, None, "seed@spatix.io"))
    /\ response' = Idle
    /\ UNCHANGED <<input, output, contributions, points_ledger, calls, ip_requests, now>>

(***************************************************************************)
(* Search over the persisted bbox columns: backend/database.py.            *)
(***************************************************************************)
NoBBox == <<>>

\* The columns search_datasets selects.
SearchColumns ==
    {"id", "title", "category", "feature_count", "geometry_types", "bbox_west",
     "bbox_south", "bbox_east", "bbox_north", "query_count", "used_in_maps",
     "reputation_score", "uploader_email"}

\* The placeholders bound in the order west, south, east, north.
BBoxConditionMisbound(row, bbox_west, bbox_south, bbox_east, bbox_north) ==
    /\ row.bbox_east >= bbox_west
    /\ row.bbox_west <= bbox_south
    /\ row.bbox_north >= bbox_east
    /\ row.bbox_south <= bbox_north

\* Strict comparisons: boxes that only touch do not match.
BBoxConditionStrict(row, bbox_west, bbox_south, bbox_east, bbox_north) ==
    /\ row.bbox_east > bbox_west
    /\ row.bbox_west < bbox_east
    /\ row.bbox_north > bbox_south
    /\ row.bbox_south < bbox_north

\* bbox_east >= west AND bbox_west <= east AND bbox_north >= south AND
\* bbox_south <= north, the parameters bound as [west, east, south, north].
BBoxCondition(row, bbox_west, bbox_south, bbox_east, bbox_north) ==
    /\ row.bbox_east >= bbox_west
    /\ row.bbox_west <= bbox_east
    /\ row.bbox_north >= bbox_south
    /\ row.bbox_south <= bbox_north

\* ORDER BY query_count DESC, reputation_score DESC.
OrderByQueryCountFirst(a, b) ==
    \/ a.query_count > b.query_count
    \/ /\ a.query_count = b.query_count
       /\ a.reputation_score >= b.reputation_score

\* ORDER BY reputation_score DESC, query_count DESC: a may stand before b.
OrderBy(a, b) ==
    \/ a.reputation_score > b.reputation_score
    \/ /\ a.reputation_score = b.reputation_score
       /\ a.query_count >= b.query_count

\* Every arrangement of the rows S the order admits (rows the keys do not
\* tell apart come in whatever order the engine produces).
Arrangements(S, Before) ==
    {seq \in [1..Cardinality(S) -> S] :
        /\ \A i, j \in DOMAIN seq : i # j => seq[i] # seq[j]
        /\ \A i, j \in DOMAIN seq : i < j => <<seq[i], seq[j]>> \in Before}

\* LIMIT limit OFFSET offset
LimitOffset(seq, limit, offset) ==
    SubSeq(seq, offset + 1, IF offset + limit < Len(seq) THEN offset + limit ELSE Len(seq))

Lower(ch) ==
    LET up == "ABCDEFGHIJKLMNOPQRSTUVWXYZ"
        lo == "abcdefghijklmnopqrstuvwxyz"
    IN IF \E i \in 1..26 : SubSeq(up, i, i) = ch
       THEN LET i == CHOOSE k \in 1..26 : SubSeq(up, k, k) = ch IN SubSeq(lo, i, i)
       ELSE ch

\* text LIKE '%q%' (ILIKE): q occurs in text, letter case ignored.
Like(text, q) ==
    /\ text # None
    /\ \E i \in 1..(Len(text) - Len(q) + 1) :
          \A k \in 1..Len(q) :
              Lower(SubSeq(text, i + k - 1, i + k - 1)) = Lower(SubSeq(q, k, k))

\* search_datasets: the row lists the query can return.
search_datasets(table, query, category, bbox, limit, offset) ==
    LET matching ==
            {d \in DOMAIN table :
                /\ table[d].public
                /\ (query # None /\ query # "") => Like(table[d].title, query)
                /\ (category # None /\ category # "") => table[d].category = category
                /\ bbox # NoBBox =>
                       BBoxCondition(table[d], bbox[1], bbox[2], bbox[3], bbox[4])}
        rows == {[c \in SearchColumns |-> table[d][c]] : d \in matching}
    IN {LimitOffset(seq, limit, offset) : seq \in Arrangements(rows,
            {p \in rows \X rows : OrderBy(p[1], p[2])})}

\* spatial_query_intersects(west, south, east, north, category, limit)
spatial_query_intersects(table, west, south, east, north, category, limit) ==
    search_datasets(table, None, category, <<west, south, east, north>>, limit, 0)

(***************************************************************************)
(* Great-circle distance: backend/api/geocode.py.  Angles are in half      *)
(* degrees; the trigonometric values are tabulated for 0, 0.5, 1, ...      *)
(* degrees and the arithmetic is fixed-point.                              *)
(***************************************************************************)
\* 10^4 * cos(h / 2 degrees), h = 0, 1, ...
COS4 == <<10000, 10000, 9998, 9997, 9994, 9990, 9986, 9981, 9976, 9969, 9962>>

\* 10^8 * sin^2(h / 4 degrees), h = 0, 1, ...
HAV8 == <<0, 1904, 7615, 17134, 30459, 47589, 68523, 93260, 121797, 154133, 190265>>

\* cos_approx(degrees), scaled by 10^4.
cos_approx(half_degrees) == COS4[Abs(half_degrees) + 1]

RECURSIVE SqrtBetween(_, _, _)
SqrtBetween(n, lo, hi) ==
    IF lo = hi THEN lo
    ELSE LET mid == (lo + hi + 1) \div 2
         IN IF mid * mid <= n THEN SqrtBetween(n, mid, hi)
            ELSE SqrtBetween(n, lo, mid - 1)

\* floor(sqrt(n)) for 0 <= n < 2^30
ISqrt(n) == SqrtBetween(n, 0, 32767)

R == 6371000

\* The latitude term left out of a.
haversine_distanceNoLatitude(lat1, lng1, lat2, lng2) ==
    LET delta_lambda == Abs(lng2 - lng1)
        a == (((cos_approx(lat1) * cos_approx(lat2)) \div 10000)
                * HAV8[delta_lambda + 1]) \div 10000
        x == ISqrt(a * 100)
        c == 2 * (x + (((x * x) \div 100000) * x) \div 600000)
    IN ((R \div 1000) * c) \div 100

\* haversine_distance(lat1, lng1, lat2, lng2) in metres.
haversine_distance(lat1, lng1, lat2, lng2) ==
    LET delta_phi == Abs(lat2 - lat1)
        delta_lambda == Abs(lng2 - lng1)
        \* a, scaled by 10^8
        a == HAV8[delta_phi + 1]
             + (((cos_approx(lat1) * cos_approx(lat2)) \div 10000)
                * HAV8[delta_lambda + 1]) \div 10000
        \* sqrt(a), scaled by 10^5
        x == ISqrt(a * 100)
        \* c = 2 * atan2(sqrt(a), sqrt(1 - a)) = 2 * asin(sqrt(a)), scaled by 10^5
        c == 2 * (x + (((x * x) \div 100000) * x) \div 600000)
    IN ((R \div 1000) * c) \div 100

(***************************************************************************)
(* Spatial query endpoints: backend/api/spatial.py.                        *)
(***************************************************************************)
\* SpatialResult built from a row.
SpatialResult(r) ==
    [id |-> r.id, title |-> r.title, category |-> r.category,
     feature_count |-> r.feature_count, geometry_types |-> r.geometry_types,
     bbox |-> [west |-> r.bbox_west, south |-> r.bbox_south,
               east |-> r.bbox_east, north |-> r.bbox_north],
     reputation_score |-> r.reputation_score]

SpatialQueryResponse(query_type, results, body) ==
    [kind |-> query_type, status |-> 200, db_calls |-> 1,
     results |-> results, total |-> Len(results), query |-> body]

BadRequest(query_type, detail, body) ==
    [kind |-> query_type, status |-> 400, db_calls |-> 0, detail |-> detail,
     query |-> body]

\* The box test written with >=: a box of zero width or height is refused.
query_intersectsRefusingDegenerate(table, body, allowed) ==
    IF ~allowed THEN {RateLimited("intersects")}
    ELSE IF body.west >= body.east
    THEN {BadRequest("intersects", "west must be <= east", body)}
    ELSE IF body.south >= body.north
    THEN {BadRequest("intersects", "south must be <= north", body)}
    ELSE {SpatialQueryResponse("intersects", [i \in DOMAIN raw |-> SpatialResult(raw[i])], body) :
             raw \in spatial_query_intersects(table, body.west, body.south,
                         body.east, body.north, body.category, body.limit)}

\* POST /api/spatial/intersects: the responses the request can get.
query_intersects(table, body, allowed) ==
    IF ~allowed THEN {RateLimited("intersects")}
    ELSE IF body.west > body.east
    THEN {BadRequest("intersects", "west must be <= east", body)}
    ELSE IF body.south > body.north
    THEN {BadRequest("intersects", "south must be <= north", body)}
    ELSE {SpatialQueryResponse("intersects", [i \in DOMAIN raw |-> SpatialResult(raw[i])], body) :
             raw \in spatial_query_intersects(table, body.west, body.south,
                         body.east, body.north, body.category, body.limit)}

\* The point passed as (lat, lng, lat, lng).
query_containsSwapped(table, body, allowed) ==
    IF ~allowed THEN {RateLimited("contains")}
    ELSE {SpatialQueryResponse("contains", [i \in DOMAIN raw |-> SpatialResult(raw[i])], body) :
             raw \in spatial_query_intersects(table, body.lat, body.lng,
                         body.lat, body.lng, body.category, body.limit)}

\* POST /api/spatial/contains
query_contains(table, body, allowed) ==
    IF ~allowed THEN {RateLimited("contains")}
    ELSE {SpatialQueryResponse("contains", [i \in DOMAIN raw |-> SpatialResult(raw[i])], body) :
             raw \in spatial_query_intersects(table, body.lng, body.lat,
                         body.lng, body.lat, body.category, body.limit)}

\* The bbox test of spatial_query_nearby: the row's box overlaps
\* lat +- radius_km / 111, lng +- radius_km / (111 * |cos(lat)|).
NearbyCondition(row, lat, lng, radius_km) ==
    LET cos4 == cos_approx(2 * lat)
    IN /\ (row.bbox_east - lng) * 111 * cos4 >= -(radius_km * 10000)
       /\ (row.bbox_west - lng) * 111 * cos4 <= radius_km * 10000
       /\ (row.bbox_north - lat) * 111 >= -radius_km
       /\ (row.bbox_south - lat) * 111 <= radius_km

\* The distance from the query point to the centre of the row's box, metres.
Distance(row, lat, lng) ==
    haversine_distance(2 * lat, 2 * lng,
                       row.bbox_south + row.bbox_north, row.bbox_west + row.bbox_east)

\* Closest first, ties by reputation score: a may stand before b.
NearbyOrder(a, b) ==
    \/ a.distance_km < b.distance_km
    \/ /\ a.distance_km = b.distance_km
       /\ a.reputation_score >= b.reputation_score

\* spatial_query_nearby(lat, lng, radius_km, category, limit); distance_km is
\* held in thousandths of a kilometre.
spatial_query_nearby(table, lat, lng, radius_km, category, limit) ==
    LET matching ==
            {d \in DOMAIN table :
                /\ table[d].public
                /\ (category # None /\ category # "") => table[d].category = category
                /\ NearbyCondition(table[d], lat, lng, radius_km)}
        rows == {[c \in SearchColumns \cup {"distance_km"} |->
                     IF c = "distance_km" THEN Distance(table[d], lat, lng)
                     ELSE table[d][c]] : d \in matching}
    IN {LimitOffset(seq, limit, 0) : seq \in Arrangements(rows,
            {p \in rows \X rows : NearbyOrder(p[1], p[2])})}

NearbyResult(r) ==
    [id |-> r.id, title |-> r.title, category |-> r.category,
     feature_count |-> r.feature_count, geometry_types |-> r.geometry_types,
     bbox |-> [west |-> r.bbox_west, south |-> r.bbox_south,
               east |-> r.bbox_east, north |-> r.bbox_north],
     distance_km |-> r.distance_km,
     reputation_score |-> r.reputation_score]

\* POST /api/spatial/nearby
query_nearby(table, body, allowed) ==
    IF ~allowed THEN {RateLimited("nearby")}
    ELSE {SpatialQueryResponse("nearby", [i \in DOMAIN raw |-> NearbyResult(raw[i])], body) :
             raw \in spatial_query_nearby(table, body.lat, body.lng,
                         body.radius_km, body.category, body.limit)}

(***************************************************************************)
(* The catalog as a state machine.                                         *)
(***************************************************************************)
Coords == 0..MaxCoord

FilterCategories == {None, "boundaries"}

Limits == {1, 50}

Radii == {50, 250}

BBoxQuery ==
    [west : Coords, south : Coords, east : Coords, north : Coords,
     category : FilterCategories, limit : Limits]

PointQuery == [lat : Coords, lng : Coords, category : FilterCategories, limit : Limits]

NearbyQuery ==
    [lat : Coords, lng : Coords, radius_km : Radii,
     category : FilterCategories, limit : Limits]

Init ==
    /\ now = 0
    /\ ip_requests = NoRequests
    /\ calls = <<>>
    /\ contributions = <<>>
    /\ points_ledger = <<>>
    /\ datasets = <<>>
    /\ response = Idle
    /\ input = NoValue
    /\ output = NoValue

\* The response is handed to the client; the next request is then served.
Return ==
    /\ response # Idle
    /\ response' = Idle
    /\ UNCHANGED <<datasets, input, output, contributions, points_ledger, calls, ip_requests, now>>

Create ==
    /\ response = Idle
    /\ \/ /\ DOMAIN datasets # DatasetIds
          /\ \E category \in CreateCategories, data \in ValidBodies,
                authorization \in {None, "Bearer tok1"} :
                 create_dataset("t1", category, data, authorization, TRUE)
       \/ \E data \in InvalidBodies : create_dataset("t1", "other", data, None, TRUE)
       \/ create_dataset("t1", "other", BodyPoints, None, FALSE)

Seed == response = Idle /\ seed

Download ==
    /\ response = Idle
    /\ \E dataset_id \in DatasetIds : get_dataset_data(dataset_id)

Update ==
    /\ response = Idle
    /\ \E dataset_id \in DatasetIds, title \in {None, "t2"},
          category \in {None, "other", "bogus"}, authorization \in AuthHeaders :
           update_dataset(dataset_id, title, category, authorization)

Delete ==
    /\ response = Idle
    /\ \E dataset_id \in DatasetIds, authorization \in AuthHeaders :
           delete_dataset(dataset_id, authorization)

Next == Create \/ Seed \/ Download \/ Update \/ Delete \/ Return

Spec == Init /\ [][Next]_vars

(***************************************************************************)
(* The catalog under spatial queries.  Reputation scores are written by    *)
(* the owning storage collaborator.                                        *)
(***************************************************************************)
UploadBodies == {BodyPoints, BodyLines, BodyPolygons}

Upload ==
    /\ response = Idle
    /\ \/ /\ DOMAIN datasets # DatasetIds
          /\ \E category \in {"boundaries", "other"}, data \in UploadBodies :
                 create_dataset("t1", category, data, None, TRUE)
       \/ create_dataset("t1", "other", FeatureCollection(<<>>), None, TRUE)
       \/ create_dataset("t1", "other", BodyPoints, None, FALSE)

set_reputation ==
    /\ response = Idle
    /\ \E dataset_id \in DOMAIN datasets, score \in 0..1 :
        /\ datasets[dataset_id].reputation_score # score
        /\ datasets' = [datasets EXCEPT ![dataset_id].reputation_score = score]
        /\ response' = Idle
        /\ UNCHANGED <<input, output, contributions, points_ledger, calls, ip_requests, now>>

AnyBBoxQuery == CHOOSE b \in BBoxQuery : TRUE

AnyPointQuery == CHOOSE b \in PointQuery : TRUE

AnyNearbyQuery == CHOOSE b \in NearbyQuery : TRUE

Intersects ==
    /\ response = Idle
    /\ \/ \E body \in BBoxQuery : response' \in query_intersects(datasets, body, TRUE)
       \/ response' \in query_intersects(datasets, AnyBBoxQuery, FALSE)
    /\ UNCHANGED <<datasets, input, output, contributions, points_ledger, calls, ip_requests, now>>

Contains ==
    /\ response = Idle
    /\ \/ \E body \in PointQuery : response' \in query_contains(datasets, body, TRUE)
       \/ response' \in query_contains(datasets, AnyPointQuery, FALSE)
    /\ UNCHANGED <<datasets, input, output, contributions, points_ledger, calls, ip_requests, now>>

Nearby ==
    /\ response = Idle
    /\ \/ \E body \in NearbyQuery : response' \in query_nearby(datasets, body, TRUE)
       \/ response' \in query_nearby(datasets, AnyNearbyQuery, FALSE)
    /\ UNCHANGED <<datasets, input, output, contributions, points_ledger, calls, ip_requests, now>>

NextQuery ==
    Upload \/ Download \/ set_reputation \/ Intersects \/ Contains \/ Nearby \/ Return

SpecQuery == Init /\ [][NextQuery]_vars

(***************************************************************************)
(* Properties of the spatial queries (specification SpecQuery).            *)
(***************************************************************************)
Answered(kind) == response.kind = kind /\ response.status = 200

ResultIds == {response.results[i].id : i \in DOMAIN response.results}

\* The public records that pass the category filter of the request.
Eligible(category) ==
    {d \in DOMAIN datasets :
        /\ datasets[d].public
        /\ category # None => datasets[d].category = category}

\* The results are distinct stored records drawn from the set matching: all
\* of it when it fits the limit, otherwise limit of them.
ResultsDrawnFrom(matching) ==
    /\ ResultIds \subseteq matching
    /\ Cardinality(ResultIds) = Len(response.results)
    /\ response.total = Len(response.results)
    /\ IF Cardinality(matching) <= response.query.limit
       THEN ResultIds = matching
       ELSE Len(response.results) = response.query.limit

\* The four comparisons of the claim for record d and the box (w, s, e, n).
FourComparisons(d, w, s, e, n) ==
    /\ datasets[d].bbox_east >= w
    /\ datasets[d].bbox_west <= e
    /\ datasets[d].bbox_north >= s
    /\ datasets[d].bbox_south <= n

\* C1: an Intersects answer holds exactly records whose stored bbox passes
\* record.east >= west, record.west <= east, record.north >= south and
\* record.south <= north (and the category filter); every such record is
\* returned unless the limit cuts the list.
C1_IntersectsMatchesOverlap ==
    Answered("intersects") =>
        LET q == response.query
        IN ResultsDrawnFrom({d \in Eligible(q.category) :
                                FourComparisons(d, q.west, q.south, q.east, q.north)})

\* An answer that returned one record and left out another whose bbox fails
\* a comparison.
C1_Witness ==
    /\ Answered("intersects")
    /\ response.query.category = None
    /\ Len(response.results) = 1
    /\ Cardinality(DOMAIN datasets) = 2
    /\ \E d \in DOMAIN datasets :
          ~FourComparisons(d, response.query.west, response.query.south,
                           response.query.east, response.query.north)

\* C2: a Contains answer is an answer Intersects can give for the box
\* west = east = lng, south = north = lat with the same category and limit;
\* it holds exactly the records with west <= lng <= east and
\* south <= lat <= north.
C2_ContainsIsDegenerateIntersects ==
    Answered("contains") =>
        LET q == response.query
            box == [west |-> q.lng, south |-> q.lat, east |-> q.lng, north |-> q.lat,
                    category |-> q.category, limit |-> q.limit]
        IN /\ \E r \in query_intersects(datasets, box, TRUE) :
                 r.results = response.results /\ r.total = response.total
           /\ ResultsDrawnFrom({d \in Eligible(q.category) :
                  /\ datasets[d].bbox_west <= q.lng /\ q.lng <= datasets[d].bbox_east
                  /\ datasets[d].bbox_south <= q.lat /\ q.lat <= datasets[d].bbox_north})

\* A Contains answer for a point off the diagonal that returns a record and
\* leaves out another.
C2_Witness ==
    /\ Answered("contains")
    /\ response.query.lat # response.query.lng
    /\ response.query.category = None
    /\ response.query.limit = 50
    /\ Len(response.results) = 1
    /\ Cardinality(DOMAIN datasets) = 2

\* C3: an Intersects request that passes the rate limiter is refused with
\* status 400 exactly when west > east or south > north; the refusal carries
\* no results and made no call to the catalog; every other box is answered.
C3_InvalidBBoxRejected ==
    (response.kind = "intersects" /\ response.status # 429) =>
        LET q == response.query
            invalid == q.west > q.east \/ q.south > q.north
        IN /\ invalid <=> response.status = 400
           /\ ~invalid <=> response.status = 200
           /\ response.status = 400 =>
                 /\ "results" \notin DOMAIN response
                 /\ response.db_calls = 0

\* A refused box, with records in the catalog it would otherwise match.
C3_Witness ==
    /\ response.kind = "intersects"
    /\ response.status = 400
    /\ response.query.south > response.query.north
    /\ response.query.west <= response.query.east
    /\ datasets # <<>>

\* (reputation, query count) of a is lexicographically >= that of b.
LexGeq(rep_a, qc_a, rep_b, qc_b) == rep_a > rep_b \/ (rep_a = rep_b /\ qc_a >= qc_b)

\* C4: the results of Intersects are in descending order of reputation score
\* and, at equal reputation, of stored query count; when the limit cuts the
\* list, no record left out ranks above one returned.
C4_IntersectsOrderedByReputationThenQueryCount ==
    Answered("intersects") =>
        LET q == response.query
            res == response.results
            qc(i) == datasets[res[i].id].query_count
            matching == {d \in Eligible(q.category) :
                            FourComparisons(d, q.west, q.south, q.east, q.north)}
        IN /\ \A i, j \in DOMAIN res :
                 i < j => LexGeq(res[i].reputation_score, qc(i),
                                 res[j].reputation_score, qc(j))
           /\ \A i \in DOMAIN res :
                 res[i].reputation_score = datasets[res[i].id].reputation_score
           /\ \A d \in matching \ ResultIds : \A i \in DOMAIN res :
                 LexGeq(res[i].reputation_score, qc(i),
                        datasets[d].reputation_score, datasets[d].query_count)

\* Two results, the first of higher reputation and lower query count.
C4_Witness ==
    /\ Answered("intersects")
    /\ Len(response.results) = 2
    /\ response.results[1].reputation_score > response.results[2].reputation_score
    /\ datasets[response.results[1].id].query_count
          < datasets[response.results[2].id].query_count

\* The grid points two closed boxes have in common.
SharedPoints(w1, s1, e1, n1, w2, s2, e2, n2) ==
    {p \in (0..(MaxCoord + 1)) \X (0..(MaxCoord + 1)) :
        /\ w1 <= p[1] /\ p[1] <= e1 /\ s1 <= p[2] /\ p[2] <= n1
        /\ w2 <= p[1] /\ p[1] <= e2 /\ s2 <= p[2] /\ p[2] <= n2}

\* Record d is among the rows Intersects returns for the box, unfiltered.
Returned(d, w, s, e, n) ==
    \E raw \in spatial_query_intersects(datasets, w, s, e, n, None, MaxDatasets) :
        \E i \in DOMAIN raw : raw[i].id = d

\* C5: an unfiltered Intersects answer that the limit does not cut holds
\* exactly the records whose box has a point in common with the query box,
\* so a record is matched by its own bbox and by a box that shares only an
\* edge or a corner with it; and the relation is symmetric: the bbox of one
\* record, as query box, returns another record exactly when the bbox of the
\* other returns the first.
C5_IntersectsReflexiveInclusiveSymmetric ==
    /\ (Answered("intersects") /\ response.query.category = None
           /\ response.query.limit >= Cardinality(DOMAIN datasets)) =>
          LET q == response.query
          IN ResultIds =
                {d \in DOMAIN datasets :
                    SharedPoints(datasets[d].bbox_west, datasets[d].bbox_south,
                                 datasets[d].bbox_east, datasets[d].bbox_north,
                                 q.west, q.south, q.east, q.north) # {}}
    /\ \A d \in DOMAIN datasets :
          Returned(d, datasets[d].bbox_west, datasets[d].bbox_south,
                   datasets[d].bbox_east, datasets[d].bbox_north)
    /\ \A d1, d2 \in DOMAIN datasets :
          Returned(d2, datasets[d1].bbox_west, datasets[d1].bbox_south,
                   datasets[d1].bbox_east, datasets[d1].bbox_north)
          <=> Returned(d1, datasets[d2].bbox_west, datasets[d2].bbox_south,
                       datasets[d2].bbox_east, datasets[d2].bbox_north)

\* A returned record whose bbox has a single corner point in common with a
\* query box of positive area, and another returned for its own bbox.
C5_Witness ==
    /\ Answered("intersects")
    /\ response.query.west < response.query.east
    /\ response.query.south < response.query.north
    /\ \E i \in DOMAIN response.results :
          LET b == response.results[i].bbox
          IN /\ b.west < b.east
             /\ b.south < b.north
             /\ Cardinality(SharedPoints(b.west, b.south, b.east, b.north,
                   response.query.west, response.query.south,
                   response.query.east, response.query.north)) = 1

\* The centre of the result's box is the query point.
AtQueryPoint(r, q) ==
    /\ r.bbox.south + r.bbox.north = 2 * q.lat
    /\ r.bbox.west + r.bbox.east = 2 * q.lng

\* The centre of the result's box is a degree of latitude (111 km) or more
\* from the query point.
HundredKmAway(r, q) ==
    Abs(r.bbox.south + r.bbox.north - 2 * q.lat) >= 2

\* C6: the results of Nearby are in ascending order of the computed
\* distance, results at equal distance in descending order of reputation
\* score, and a result at the query point stands before every result
\* 100 km or more away.
C6_NearbyClosestFirst ==
    Answered("nearby") =>
        LET q == response.query
            res == response.results
        IN /\ \A i, j \in DOMAIN res :
                 i < j =>
                    /\ res[i].distance_km <= res[j].distance_km
                    /\ res[i].distance_km = res[j].distance_km =>
                          res[i].reputation_score >= res[j].reputation_score
           /\ \A i, j \in DOMAIN res :
                 (AtQueryPoint(res[i], q) /\ HundredKmAway(res[j], q)) => i < j
           /\ \A i \in DOMAIN res :
                 /\ AtQueryPoint(res[i], q) => res[i].distance_km = 0
                 /\ HundredKmAway(res[i], q) => res[i].distance_km >= 100000

\* A result at the query point before one 100 km away that has the higher
\* reputation.
C6_Witness ==
    /\ Answered("nearby")
    /\ Len(response.results) = 2
    /\ AtQueryPoint(response.results[1], response.query)
    /\ HundredKmAway(response.results[2], response.query)
    /\ response.results[1].reputation_score < response.results[2].reputation_score

(***************************************************************************)
(* The Geometry Extractor as the specification states it (section 4.2):    *)
(* the positions of a geometry, every geometry type followed, the members  *)
(* of a GeometryCollection included.                                       *)
(***************************************************************************)
Pairs(cs) == {<<cs[i][1], cs[i][2]>> : i \in {j \in DOMAIN cs : Len(cs[j]) >= 2}}

RECURSIVE extract_coordinates(_)
extract_coordinates(geom) ==
    LET gt == Get(geom, "type", None)
        coords == Get(geom, "coordinates", <<>>)
        members == Get(geom, "geometries", <<>>)
    IN CASE gt = "Point" -> Pairs(<<coords>>)
         [] gt \in {"LineString", "MultiPoint"} -> Pairs(coords)
         [] gt \in {"Polygon", "MultiLineString"} -> Pairs(Flatten(coords))
         [] gt = "MultiPolygon" -> Pairs(Flatten(Flatten(coords)))
         [] gt = "GeometryCollection" ->
               UNION {extract_coordinates(members[i]) : i \in DOMAIN members}
         [] OTHER -> {}

\* The positions of all features of a collection.
CollectionCoordinates(data) ==
    UNION {extract_coordinates(Get(data.features[i], "geometry", [type |-> None])) :
              i \in DOMAIN data.features}

(***************************************************************************)
(* Properties of the catalog life cycle (specification Spec).              *)
(***************************************************************************)
\* C7: every stored record has bbox_west <= bbox_east and
\* bbox_south <= bbox_north, and its stored bbox is (min lng, min lat,
\* max lng, max lat) over the coordinates the Geometry Extractor yields for
\* its stored features.
C7_StoredBBoxIsExtentOfStoredFeatures ==
    \A d \in DOMAIN datasets :
        LET row == datasets[d]
            ps == CollectionCoordinates(row.data)
        IN /\ row.bbox_west <= row.bbox_east
           /\ row.bbox_south <= row.bbox_north
           /\ ps # {}
           /\ row.bbox_west = SetMin({p[1] : p \in ps})
           /\ row.bbox_south = SetMin({p[2] : p \in ps})
           /\ row.bbox_east = SetMax({p[1] : p \in ps})
           /\ row.bbox_north = SetMax({p[2] : p \in ps})

(***************************************************************************)
(* extract_bounds (api/normalize.py).                                      *)
(***************************************************************************)
\* The geometry type of _extract with the GeometryCollection branch left out.
_extractSkippingCollections(geom, coords) ==
    LET geom_type == Get(geom, "type", None)
        geom_coords == Get(geom, "coordinates", <<>>)
    IN IF geom = <<>> THEN coords
       ELSE IF geom_type = "Point" THEN Append(coords, geom_coords)
       ELSE IF geom_type \in {"LineString", "MultiPoint"} THEN coords \o geom_coords
       ELSE IF geom_type \in {"Polygon", "MultiLineString"}
       THEN coords \o Flatten(geom_coords)
       ELSE IF geom_type = "MultiPolygon"
       THEN coords \o Flatten(Flatten(geom_coords))
       ELSE coords

RECURSIVE _extract(_, _)
RECURSIVE ExtractMembers(_, _)
\* _extract(geom): the list coords after the call; a null geometry is <<>>.
_extract(geom, coords) ==
    LET geom_type == Get(geom, "type", None)
        geom_coords == Get(geom, "coordinates", <<>>)
    IN IF geom = <<>> THEN coords
       ELSE IF geom_type = "Point" THEN Append(coords, geom_coords)
       ELSE IF geom_type \in {"LineString", "MultiPoint"} THEN coords \o geom_coords
       ELSE IF geom_type \in {"Polygon", "MultiLineString"}
       THEN coords \o Flatten(geom_coords)
       ELSE IF geom_type = "MultiPolygon"
       THEN coords \o Flatten(Flatten(geom_coords))
       ELSE IF geom_type = "GeometryCollection"
       THEN ExtractMembers(Get(geom, "geometries", <<>>), coords)
       ELSE coords

\* for g in geom.get("geometries", []): _extract(g)
ExtractMembers(gs, coords) ==
    IF gs = <<>> THEN coords
    ELSE ExtractMembers(Tail(gs), _extract(Head(gs), coords))

RECURSIVE ExtractFeatures(_, _)
\* for feature in geojson.get("features", []): _extract(feature.get("geometry"))
ExtractFeatures(features, coords) ==
    IF features = <<>> THEN coords
    ELSE ExtractFeatures(Tail(features),
                         _extract(Get(Head(features), "geometry", <<>>), coords))

DEFAULT_BOUNDS == <<<<-180, -85>>, <<180, 85>>>>

extract_bounds(geojson) ==
    LET coords == ExtractFeatures(Get(geojson, "features", <<>>), <<>>)
        ok == SelectSeq(coords, LAMBDA c : Len(c) >= 2)
        lngs == [i \in DOMAIN ok |-> ok[i][1]]
        lats == [i \in DOMAIN ok |-> ok[i][2]]
    IN IF coords = <<>> THEN DEFAULT_BOUNDS
       ELSE IF lngs = <<>> \/ lats = <<>> THEN DEFAULT_BOUNDS
       ELSE <<<<min(lngs), min(lats)>>, <<max(lngs), max(lats)>>>>

\* The number of features of a collection handed to extract_bounds.
MaxFeatures == 2

\* Geometries of a feature: the seven types, a position with an elevation,
\* collections nested and empty, a geometry without coordinates, a position
\* cut short.
BoundsGeometries ==
    {Point(1, 1),
     [type |-> "Point", coordinates |-> <<2, 0, 9>>],
     LineString(<<<<0, 1>>, <<1, 2>>>>),
     MultiPoint(<<<<2, 2>>, <<1, 0>>>>),
     Polygon(<<<<<<1, 0>>, <<2, 0>>, <<2, 1>>, <<1, 0>>>>>>),
     MultiLineString(<<<<<<0, 0>>, <<1, 0>>>>, <<<<1, 2>>, <<2, 2>>>>>>),
     MultiPolygon(<<<<<<<<0, 1>>, <<0, 2>>, <<1, 2>>, <<0, 1>>>>>>>>),
     GeometryCollection(<<Point(0, 2), LineString(<<<<2, 1>>, <<2, 2>>>>)>>),
     GeometryCollection(<<GeometryCollection(<<Point(-1, 3)>>), Point(1, 1)>>),
     GeometryCollection(<<>>),
     [type |-> "Point"],
     LineString(<<<<1>>, <<2, 0>>>>),
     LineString(<<<<1>>>>)}

BoundsFeatures ==
    {Feature([name |-> "a"], g) : g \in BoundsGeometries}
        \cup {FeatureNoGeometry([name |-> "a"])}

BoundsInputs ==
    {FeatureCollection(fs) :
        fs \in UNION {[1..n -> BoundsFeatures] : n \in 0..MaxFeatures}}

InitBounds ==
    /\ now = 0
    /\ ip_requests = NoRequests
    /\ calls = <<>>
    /\ contributions = <<>>
    /\ points_ledger = <<>>
    /\ datasets = <<>>
    /\ response = Idle
    /\ input \in {[kind |-> "geojson", value |-> fc] : fc \in BoundsInputs}
    /\ output = NoValue

Bounds ==
    /\ input.kind = "geojson"
    /\ output = NoValue
    /\ output' = [kind |-> "bounds", value |-> extract_bounds(input.value)]
    /\ UNCHANGED <<datasets, response, input, contributions, points_ledger, calls, ip_requests, now>>

NextBounds == Bounds

SpecBounds == InitBounds /\ [][NextBounds]_vars

\* C8: for a FeatureCollection extract_bounds returns
\* [[minLng, minLat], [maxLng, maxLat]] over every coordinate pair the
\* Geometry Extractor reaches (all seven geometry types, nested
\* GeometryCollections included), and [[-180, -85], [180, 85]] when the
\* collection has no features or none yields a coordinate pair.
C8_ExtractBoundsIsExtent ==
    output.kind = "bounds" =>
        LET ps == CollectionCoordinates(input.value)
        IN IF ps = {}
           THEN output.value = <<<<-180, -85>>, <<180, 85>>>>
           ELSE output.value =
                   <<<<SetMin({p[1] : p \in ps}), SetMin({p[2] : p \in ps})>>,
                     <<SetMax({p[1] : p \in ps}), SetMax({p[2] : p \in ps})>>>>

\* Bounds whose west and north edges come from a point inside a nested
\* GeometryCollection.
C8_Witness ==
    /\ output.kind = "bounds"
    /\ Len(input.value.features) = 2
    /\ \E i \in DOMAIN input.value.features :
          /\ "geometry" \in DOMAIN input.value.features[i]
          /\ input.value.features[i].geometry.type = "Polygon"
    /\ output.value[1][1] = -1
    /\ output.value[2][2] = 3

(***************************************************************************)
(* Strings (Python str methods).                                           *)
(***************************************************************************)
Char(s, i) == SubSeq(s, i, i)

Whitespace == {" ", "\n", "\t", "\r"}

Digits == "0123456789"

IsDigit(c) == \E i \in 1..10 : Char(Digits, i) = c

DigitValue(c) == (CHOOSE i \in 1..10 : Char(Digits, i) = c) - 1

\* s.strip()
strip(s) ==
    LET keep == {i \in 1..Len(s) : Char(s, i) \notin Whitespace}
    IN IF keep = {} THEN "" ELSE SubSeq(s, SetMin(keep), SetMax(keep))

Upper(ch) ==
    LET up == "ABCDEFGHIJKLMNOPQRSTUVWXYZ"
        lo == "abcdefghijklmnopqrstuvwxyz"
    IN IF \E i \in 1..26 : Char(lo, i) = ch
       THEN LET i == CHOOSE k \in 1..26 : Char(lo, k) = ch IN Char(up, i)
       ELSE ch

RECURSIVE upper(_)
\* s.upper()
upper(s) == IF s = "" THEN "" ELSE Upper(Char(s, 1)) \o upper(SubSeq(s, 2, Len(s)))

RECURSIVE lower(_)
\* s.lower()
lower(s) == IF s = "" THEN "" ELSE Lower(Char(s, 1)) \o lower(SubSeq(s, 2, Len(s)))

\* s.startswith(prefix)
startswith(s, prefix) == Len(s) >= Len(prefix) /\ SubSeq(s, 1, Len(prefix)) = prefix

\* The positions at which sub occurs in s.
Occurrences(s, sub) ==
    {i \in 1..(Len(s) - Len(sub) + 1) : SubSeq(s, i, i + Len(sub) - 1) = sub}

\* sub in s
In(sub, s) == Occurrences(s, sub) # {}

\* The first position at or after i whose character is not in chars.
SkipChars(s, i, chars) ==
    LET stop == {j \in i..Len(s) : Char(s, j) \notin chars}
    IN IF stop = {} THEN Len(s) + 1 ELSE SetMin(stop)

RECURSIVE split(_, _)
\* s.split(sep) for a separator of one character.
split(s, sep) ==
    LET at == Occurrences(s, sep)
    IN IF at = {} THEN <<s>>
       ELSE <<SubSeq(s, 1, SetMin(at) - 1)>>
               \o split(SubSeq(s, SetMin(at) + 1, Len(s)), sep)

RECURSIVE split_whitespace(_)
\* s.split(): the runs of characters that are not whitespace.
split_whitespace(s) ==
    LET from == SkipChars(s, 1, Whitespace)
        to == SkipChars(s, from, {Char(s, j) : j \in 1..Len(s)} \ Whitespace)
    IN IF from > Len(s) THEN <<>>
       ELSE <<SubSeq(s, from, to - 1)>> \o split_whitespace(SubSeq(s, to, Len(s)))

RECURSIVE DigitsValue(_)
\* The number a run of decimal digits denotes.
DigitsValue(ds) ==
    IF ds = "" THEN 0
    ELSE 10 * DigitsValue(SubSeq(ds, 1, Len(ds) - 1)) + DigitValue(Char(ds, Len(ds)))

(***************************************************************************)
(* JSON values as Python holds them.  A value carries its type: the        *)
(* normalizer tests isinstance on what it is given.                        *)
(***************************************************************************)
JNull == [t |-> "null"]

JBool(b) == [t |-> "bool", v |-> b]

JStr(s) == [t |-> "str", v |-> s]

JNum(n) == [t |-> "number", v |-> n]

JList(items) == [t |-> "list", v |-> items]

JDict(members) == [t |-> "dict", v |-> members]

\* A number with a fraction: whole part, and the digits after the point
\* without trailing zeros; a fraction of zeros leaves the whole number.
Number(negative, whole, fraction) ==
    LET nz == {i \in 1..Len(fraction) : Char(fraction, i) # "0"}
        f == IF nz = {} THEN "" ELSE SubSeq(fraction, 1, SetMax(nz))
        n == DigitsValue(whole)
    IN IF f = "" THEN JNum(IF negative THEN -n ELSE n)
       ELSE [t |-> "number", v |-> n, f |-> f, negative |-> negative]

\* d.get(key) on a dict value; None is JNull.
DictGet(d, key) == IF key \in DOMAIN d.v THEN d.v[key] ELSE JNull

\* d[key] = value
DictPut(members, key, value) ==
    [k \in DOMAIN members \cup {key} |-> IF k = key THEN value ELSE members[k]]

(***************************************************************************)
(* json.loads on documents without string escapes and exponents.  The      *)
(* parsers return [ok, value, next]: next is the position after the value. *)
(***************************************************************************)
ParseFailed == [ok |-> FALSE]

Parsed(value, next) == [ok |-> TRUE, value |-> value, next |-> next]

\* A string: the characters up to the closing quote.
ParseString(s, i) ==
    LET close == {j \in (i + 1)..Len(s) : Char(s, j) = "\""}
        j == SetMin(close)
        body == SubSeq(s, i + 1, j - 1)
    IN IF close = {} THEN ParseFailed
       ELSE IF \E k \in 1..Len(body) : Char(body, k) \in {"\n", "\t", "\r", "\\"}
       THEN ParseFailed
       ELSE Parsed(JStr(body), j + 1)

\* -? (0 | [1-9][0-9]*) (. [0-9]+)?
ParseNumber(s, i) ==
    LET negative == Char(s, i) = "-"
        from == IF negative THEN i + 1 ELSE i
        to == SkipChars(s, from, {Char(Digits, k) : k \in 1..10})
        whole == SubSeq(s, from, to - 1)
        point == to <= Len(s) /\ Char(s, to) = "."
        fto == SkipChars(s, to + 1, {Char(Digits, k) : k \in 1..10})
        fraction == SubSeq(s, to + 1, fto - 1)
    IN IF whole = "" \/ (Len(whole) > 1 /\ Char(whole, 1) = "0") THEN ParseFailed
       ELSE IF ~point THEN Parsed(Number(negative, whole, ""), to)
       ELSE IF fraction = "" THEN ParseFailed
       ELSE Parsed(Number(negative, whole, fraction), fto)

RECURSIVE ParseValue(_, _)
RECURSIVE ParseElements(_, _, _)
RECURSIVE ParseMembers(_, _, _)
\* A value at position i, whitespace before it skipped.
ParseValue(s, at) ==
    LET i == SkipChars(s, at, Whitespace)
        c == Char(s, i)
        j == SkipChars(s, i + 1, Whitespace)
    IN IF i > Len(s) THEN ParseFailed
       ELSE IF c = "\"" THEN ParseString(s, i)
       ELSE IF c = "-" \/ IsDigit(c) THEN ParseNumber(s, i)
       ELSE IF startswith(SubSeq(s, i, Len(s)), "null") THEN Parsed(JNull, i + 4)
       ELSE IF startswith(SubSeq(s, i, Len(s)), "true") THEN Parsed(JBool(TRUE), i + 4)
       ELSE IF startswith(SubSeq(s, i, Len(s)), "false") THEN Parsed(JBool(FALSE), i + 5)
       ELSE IF c = "[" THEN
            IF j <= Len(s) /\ Char(s, j) = "]" THEN Parsed(JList(<<>>), j + 1)
            ELSE ParseElements(s, i + 1, <<>>)
       ELSE IF c = "{" THEN
            IF j <= Len(s) /\ Char(s, j) = "}" THEN Parsed(JDict(<<>>), j + 1)
            ELSE ParseMembers(s, i + 1, <<>>)
       ELSE ParseFailed

\* value (, value)* ]
ParseElements(s, at, items) ==
    LET e == ParseValue(s, at)
        j == SkipChars(s, e.next, Whitespace)
    IN IF ~e.ok \/ j > Len(s) THEN ParseFailed
       ELSE IF Char(s, j) = "]" THEN Parsed(JList(Append(items, e.value)), j + 1)
       ELSE IF Char(s, j) = "," THEN ParseElements(s, j + 1, Append(items, e.value))
       ELSE ParseFailed

\* string : value (, string : value)* }
ParseMembers(s, at, members) ==
    LET i == SkipChars(s, at, Whitespace)
        k == IF i <= Len(s) /\ Char(s, i) = "\"" THEN ParseString(s, i) ELSE ParseFailed
        colon == SkipChars(s, k.next, Whitespace)
        e == ParseValue(s, colon + 1)
        j == SkipChars(s, e.next, Whitespace)
    IN IF ~k.ok \/ colon > Len(s) \/ Char(s, colon) # ":" THEN ParseFailed
       ELSE IF ~e.ok \/ j > Len(s) THEN ParseFailed
       ELSE IF Char(s, j) = "}"
       THEN Parsed(JDict(DictPut(members, k.value.v, e.value)), j + 1)
       ELSE IF Char(s, j) = ","
       THEN ParseMembers(s, j + 1, DictPut(members, k.value.v, e.value))
       ELSE ParseFailed

\* json.loads(s): the value, or ParseFailed for json.JSONDecodeError.
json_loads(s) ==
    LET r == ParseValue(s, 1)
    IN IF r.ok /\ SkipChars(s, r.next, Whitespace) > Len(s) THEN r ELSE ParseFailed

\* float(token): -? digits* (. digits*)? holding a digit, else ValueError.
float(token) ==
    LET negative == startswith(token, "-")
        body == IF negative THEN SubSeq(token, 2, Len(token)) ELSE token
        to == SkipChars(body, 1, {Char(Digits, k) : k \in 1..10})
        whole == SubSeq(body, 1, to - 1)
        point == to <= Len(body) /\ Char(body, to) = "."
        fraction == IF point THEN SubSeq(body, to + 1, Len(body)) ELSE ""
        fto == SkipChars(fraction, 1, {Char(Digits, k) : k \in 1..10})
    IN IF (~point /\ to <= Len(body)) \/ fto <= Len(fraction)
          \/ (whole = "" /\ fraction = "")
       THEN ParseFailed
       ELSE Parsed(Number(negative, whole, fraction), Len(token) + 1)

(***************************************************************************)
(* The parsers of api/maps.py.  A call ends in a value or in an exception. *)
(***************************************************************************)
JFeatureCollection(features) ==
    JDict([type |-> JStr("FeatureCollection"), features |-> JList(features)])

JFeature(properties, geometry) ==
    JDict([type |-> JStr("Feature"), properties |-> JDict(properties),
           geometry |-> geometry])

JGeometry(type, coordinates) ==
    JDict([type |-> JStr(type), coordinates |-> coordinates])

\* isinstance(x, (int, float)); a bool is an int.
IsNumber(x) == x.t \in {"number", "bool"}

GEOMETRY_TYPES ==
    <<"Point", "LineString", "Polygon", "MultiPoint",
      "MultiLineString", "MultiPolygon", "GeometryCollection">>

\* The list of normalize_geojson without GeometryCollection.
normalize_geojsonSixTypes(data) ==
    IF DictGet(data, "type") = JStr("FeatureCollection") THEN Ok(data)
    ELSE IF DictGet(data, "type") = JStr("Feature")
    THEN Ok(JFeatureCollection(<<data>>))
    ELSE IF \E i \in 1..6 : DictGet(data, "type") = JStr(GEOMETRY_TYPES[i])
    THEN Ok(JFeatureCollection(<<JFeature(<<>>, data)>>))
    ELSE HTTPException(400, "Invalid GeoJSON structure")

normalize_geojson(data) ==
    IF DictGet(data, "type") = JStr("FeatureCollection") THEN Ok(data)
    ELSE IF DictGet(data, "type") = JStr("Feature")
    THEN Ok(JFeatureCollection(<<data>>))
    ELSE IF \E i \in DOMAIN GEOMETRY_TYPES :
               DictGet(data, "type") = JStr(GEOMETRY_TYPES[i])
    THEN Ok(JFeatureCollection(<<JFeature(<<>>, data)>>))
    ELSE HTTPException(400, "Invalid GeoJSON structure")

\* wkt[:100]
First100(wkt) == SubSeq(wkt, 1, IF Len(wkt) < 100 THEN Len(wkt) ELSE 100)

NumberChars == {Char(Digits, k) : k \in 1..10} \cup {"-", "."}

\* re.match(r'POINT\s*\(\s*([-\d.]+)\s+([-\d.]+)\s*\)', wkt): the two groups.
point_match(wkt) ==
    LET open == SkipChars(wkt, 6, Whitespace)
        x1 == SkipChars(wkt, open + 1, Whitespace)
        x2 == SkipChars(wkt, x1, NumberChars)
        y1 == SkipChars(wkt, x2, Whitespace)
        y2 == SkipChars(wkt, y1, NumberChars)
        close == SkipChars(wkt, y2, Whitespace)
    IN IF /\ startswith(wkt, "POINT")
          /\ open <= Len(wkt) /\ Char(wkt, open) = "("
          /\ x2 > x1 /\ y1 > x2 /\ y2 > y1
          /\ close <= Len(wkt) /\ Char(wkt, close) = ")"
       THEN [ok |-> TRUE, group1 |-> SubSeq(wkt, x1, x2 - 1),
             group2 |-> SubSeq(wkt, y1, y2 - 1)]
       ELSE [ok |-> FALSE]

\* re.match(keyword\s*<open>(.*)<close>, wkt, re.DOTALL): the group, which
\* runs to the last <close> of the string.
group_match(wkt, keyword, open, close) ==
    LET at == SkipChars(wkt, Len(keyword) + 1, Whitespace)
        from == at + Len(open)
        ends == {j \in Occurrences(wkt, close) : j >= from}
    IN IF /\ startswith(wkt, keyword)
          /\ startswith(SubSeq(wkt, at, Len(wkt)), open)
          /\ ends # {}
       THEN [ok |-> TRUE, group1 |-> SubSeq(wkt, from, SetMax(ends) - 1)]
       ELSE [ok |-> FALSE]

RECURSIVE parse_pairsLenient(_, _)
\* The loop with a pair that does not read as two numbers skipped.
parse_pairsLenient(pairs, coords) ==
    IF pairs = <<>> THEN Ok(coords)
    ELSE LET parts == split_whitespace(strip(Head(pairs)))
             x == float(parts[1])
             y == float(parts[2])
         IN IF Len(parts) < 2 THEN parse_pairsLenient(Tail(pairs), coords)
            ELSE IF ~x.ok \/ ~y.ok THEN parse_pairsLenient(Tail(pairs), coords)
            ELSE parse_pairsLenient(Tail(pairs),
                                    Append(coords, JList(<<x.value, y.value>>)))

RECURSIVE parse_pairs(_, _)
\* The loop over coords_str.split(','): the coords list, or the ValueError
\* of float().
parse_pairs(pairs, coords) ==
    IF pairs = <<>> THEN Ok(coords)
    ELSE LET parts == split_whitespace(strip(Head(pairs)))
             x == float(parts[1])
             y == float(parts[2])
         IN IF Len(parts) < 2 THEN parse_pairs(Tail(pairs), coords)
            ELSE IF ~x.ok \/ ~y.ok THEN Raised("ValueError")
            ELSE parse_pairs(Tail(pairs),
                             Append(coords, JList(<<x.value, y.value>>)))

parse_wkt(text) ==
    LET wkt == upper(strip(text))
        point == point_match(wkt)
        line_match == group_match(wkt, "LINESTRING", "(", ")")
        poly_match == group_match(wkt, "POLYGON", "((", "))")
        lng == float(point.group1)
        lat == float(point.group2)
        line == parse_pairs(split(line_match.group1, ","), <<>>)
        ring == parse_pairs(split(poly_match.group1, ","), <<>>)
    IN IF point.ok THEN
            IF ~lng.ok \/ ~lat.ok THEN Raised("ValueError")
            ELSE Ok(JFeatureCollection(<<JFeature(<<>>,
                     JGeometry("Point", JList(<<lng.value, lat.value>>)))>>))
       ELSE IF line_match.ok THEN
            IF ~line.ok THEN line
            ELSE Ok(JFeatureCollection(<<JFeature(<<>>,
                     JGeometry("LineString", JList(line.value)))>>))
       ELSE IF poly_match.ok THEN
            IF ~ring.ok THEN ring
            ELSE Ok(JFeatureCollection(<<JFeature(<<>>,
                     JGeometry("Polygon", JList(<<JList(ring.value)>>)))>>))
       ELSE HTTPException(400, "Could not parse WKT: " \o First100(wkt))

parse_coordinates(coords) ==
    LET items == coords.v
        first == items[1]
        last == items[Len(items)]
    IN IF items = <<>> THEN HTTPException(400, "Empty coordinates array")
       ELSE IF Len(items) = 2 /\ IsNumber(first)
       THEN Ok(JFeatureCollection(<<JFeature(<<>>, JGeometry("Point", coords))>>))
       ELSE IF first.t = "list" /\ Len(first.v) = 2 /\ IsNumber(first.v[1])
       THEN IF Len(items) > 2 /\ first = last
            THEN Ok(JFeatureCollection(<<JFeature(<<>>,
                      JGeometry("Polygon", JList(<<coords>>)))>>))
            ELSE Ok(JFeatureCollection(<<JFeature(<<>>,
                      JGeometry("LineString", coords))>>))
       ELSE HTTPException(400, "Could not interpret coordinate array")

detect_and_normalize_data(data) ==
    IF data.t = "dict" THEN normalize_geojson(data)
    ELSE IF data.t = "str" THEN parse_wkt(data.v)
    ELSE IF data.t = "list" THEN parse_coordinates(data)
    ELSE HTTPException(400, "Could not parse data format")

(***************************************************************************)
(* CSV text (api/normalize.py).  pandas.read_csv is modelled for text      *)
(* without quoted fields: the first line names the columns, empty lines    *)
(* are skipped, a short record is filled with NaN, a record longer than    *)
(* the first one is a tokenizing error, and a column is numeric when every *)
(* value it holds reads as a number.                                       *)
(***************************************************************************)
NaN == [t |-> "nan"]

NA_VALUES ==
    {"", "NA", "N/A", "NULL", "NaN", "nan", "null", "n/a", "#N/A", "<NA>", "None"}

read_csv(csv_text, delimiter) ==
    LET lines == SelectSeq(split(csv_text, "\n"), LAMBDA l : l # "")
        columns == split(lines[1], delimiter)
        records == [i \in 1..(Len(lines) - 1) |-> split(lines[i + 1], delimiter)]
        \* The leading fields of a first record longer than the header are
        \* the index of the frame, not columns of it.
        implicit == IF records # <<>> /\ Len(records[1]) > Len(columns)
                    THEN Len(records[1]) - Len(columns) ELSE 0
        field(i, j) == IF j + implicit <= Len(records[i])
                       THEN records[i][j + implicit] ELSE ""
        numeric(j) ==
            \A i \in DOMAIN records :
                field(i, j) \notin NA_VALUES => float(field(i, j)).ok
        cell(i, j) ==
            IF field(i, j) \in NA_VALUES THEN NaN
            ELSE IF numeric(j) THEN float(field(i, j)).value
            ELSE JStr(field(i, j))
    IN IF lines = <<>> THEN Raised("EmptyDataError")
       ELSE IF \E i \in DOMAIN records : Len(records[i]) > Len(columns) + implicit
       THEN Raised("ParserError")
       ELSE Ok([columns |-> columns,
                rows |-> [i \in DOMAIN records |->
                             [j \in DOMAIN columns |-> cell(i, j)]]])

\* The position of column name in df.columns.
ColumnIndex(df, name) == SetMin({j \in DOMAIN df.columns : df.columns[j] = name})

\* The properties of a row: every column but those in skipped, NaN as None.
RowProperties(df, row, skipped) ==
    [c \in Range(df.columns) \ skipped |->
        IF row[ColumnIndex(df, c)] = NaN THEN JNull ELSE row[ColumnIndex(df, c)]]

WKT_PREFIXES == <<"POINT", "LINESTRING", "POLYGON", "MULTI", "GEOMETRYCOLLECTION">>

\* any(text.upper().startswith(t) for t in the first n prefixes)
HasWktPrefix(text, n) == \E i \in 1..n : startswith(upper(text), WKT_PREFIXES[i])

\* mapping(shapely.wkt.loads(raw)) for POINT and LINESTRING text; any other
\* text is taken as failing to load.
shapely_wkt_loads(raw) ==
    LET wkt == upper(strip(raw))
        point == point_match(wkt)
        line_match == group_match(wkt, "LINESTRING", "(", ")")
        x == float(point.group1)
        y == float(point.group2)
        line == parse_pairs(split(line_match.group1, ","), <<>>)
    IN IF point.ok /\ Char(wkt, Len(wkt)) = ")" /\ Occurrences(wkt, ")") = {Len(wkt)}
       THEN IF x.ok /\ y.ok
            THEN Ok(JGeometry("Point", JList(<<x.value, y.value>>)))
            ELSE Raised("WKTReadingError")
       ELSE IF line_match.ok /\ Occurrences(wkt, ")") = {Len(wkt)}
                /\ line.ok /\ Len(line.value) >= 2
       THEN Ok(JGeometry("LineString", JList(line.value)))
       ELSE Raised("WKTReadingError")

\* What the text of a geometry cell loads as: WKT through shapely, a JSON
\* object through json.loads, anything else not at all.
LoadGeometry(raw) ==
    IF HasWktPrefix(raw, 5) THEN shapely_wkt_loads(raw)
    ELSE IF startswith(raw, "{") THEN json_loads(raw)
    ELSE ParseFailed

\* A cell that is not text (NaN, a number) is skipped.
LoadCell(cell) == IF cell.t # "str" THEN ParseFailed ELSE LoadGeometry(strip(cell.v))

\* features after the row: a row whose cell did not load is skipped.
AddFeature(df, geom_col, row, features, loaded) ==
    IF ~loaded.ok \/ loaded.value = JDict(<<>>) THEN features
    ELSE Append(features, JFeature(RowProperties(df, row, {geom_col}), loaded.value))

RECURSIVE GeomFeatures(_, _, _, _)
\* The loop of _csv_geom_to_geojson over the rows.
GeomFeatures(df, geom_col, rows, features) ==
    IF rows = <<>> THEN features
    ELSE GeomFeatures(df, geom_col, Tail(rows),
             AddFeature(df, geom_col, Head(rows), features,
                        LoadCell(Head(rows)[ColumnIndex(df, geom_col)])))

_csv_geom_to_geojson(df, geom_col) ==
    LET features == GeomFeatures(df, geom_col, df.rows, <<>>)
    IN IF features = <<>>
       THEN HTTPException(400, "No valid geometries found in geometry column")
       ELSE Ok(JFeatureCollection(features))

LAT_NAMES == <<"LATITUDE", "latitude", "lat", "Latitude", "LAT", "y", "Y", "Lat">>

LNG_NAMES ==
    <<"LONGITUDE", "longitude", "lng", "lon", "long", "Longitude",
      "LNG", "LON", "LONG", "x", "X", "Lng", "Lon">>

\* next((c for c in names if c in df.columns), None)
FirstColumn(names, df) ==
    LET found == {i \in DOMAIN names : names[i] \in Range(df.columns)}
    IN IF found = {} THEN None ELSE names[SetMin(found)]

\* The columns whose name holds wkt, geom, geometry or shape and whose first
\* value looks like WKT or like a JSON object with a "type" key.
GeometryCandidates(df) ==
    {j \in DOMAIN df.columns :
        /\ \E g \in {"wkt", "geom", "geometry", "shape"} : In(g, lower(df.columns[j]))
        /\ \E i \in DOMAIN df.rows :
              /\ df.rows[i][j] # NaN
              /\ \A k \in 1..(i - 1) : df.rows[k][j] = NaN
              /\ df.rows[i][j].t = "str"
              /\ LET sample == strip(df.rows[i][j].v)
                 IN \/ HasWktPrefix(sample, 4)
                    \/ startswith(sample, "{") /\ In("\"type\"", sample)}

\* pd.to_numeric(value, errors="coerce")
to_numeric(cell) ==
    IF cell.t = "str" THEN (IF float(cell.v).ok THEN float(cell.v).value ELSE NaN)
    ELSE cell

\* -bound <= number <= bound
WithinRange(number, bound) ==
    IF "f" \in DOMAIN number THEN number.v < bound
    ELSE -bound <= number.v /\ number.v <= bound

\* pd.to_numeric of the value a row holds in column col.
NumericCell(df, row, col) == to_numeric(row[ColumnIndex(df, col)])

\* The rows left after dropna alone.
ValidRowsWithoutRange(df, lat_col, lng_col) ==
    SelectSeq(df.rows,
        LAMBDA row : /\ NumericCell(df, row, lat_col) # NaN
                     /\ NumericCell(df, row, lng_col) # NaN)

\* The rows left after dropna and the range filter on lat and lng.
ValidRows(df, lat_col, lng_col) ==
    SelectSeq(df.rows,
        LAMBDA row : /\ NumericCell(df, row, lat_col) # NaN
                     /\ NumericCell(df, row, lng_col) # NaN
                     /\ WithinRange(NumericCell(df, row, lat_col), 90)
                     /\ WithinRange(NumericCell(df, row, lng_col), 180))

\* One Point feature per row, the other columns as its properties.
PointFeatures(df, rows, lat_col, lng_col) ==
    [i \in DOMAIN rows |->
        JFeature(RowProperties(df, rows[i], {lat_col, lng_col}),
                 JGeometry("Point",
                           JList(<<NumericCell(df, rows[i], lng_col),
                                   NumericCell(df, rows[i], lat_col)>>)))]

\* The lat/lng branch of _normalize_csv_text.
LatLngToGeoJSON(df, lat_col, lng_col) ==
    IF lat_col = None \/ lng_col = None
    THEN HTTPException(400, "CSV needs lat/lng or geometry columns.")
    ELSE IF lat_col \notin Range(df.columns) \/ lng_col \notin Range(df.columns)
    THEN Raised("KeyError")
    ELSE IF ValidRows(df, lat_col, lng_col) = <<>>
    THEN HTTPException(400, "No valid coordinates found in CSV")
    ELSE Ok(JFeatureCollection(
                PointFeatures(df, ValidRows(df, lat_col, lng_col), lat_col, lng_col)))

\* The coordinate pair tried before the geometry columns.
FrameToGeoJSONPairFirst(df, lat_col, lng_col, geom_col, candidates) ==
    IF df.rows = <<>> THEN HTTPException(400, "CSV is empty")
    ELSE IF FirstColumn(LAT_NAMES, df) # None /\ FirstColumn(LNG_NAMES, df) # None
    THEN LatLngToGeoJSON(df, FirstColumn(LAT_NAMES, df), FirstColumn(LNG_NAMES, df))
    ELSE IF (geom_col \notin {None, ""} /\ geom_col \in Range(df.columns))
              \/ candidates # {}
    THEN _csv_geom_to_geojson(df,
             IF geom_col \notin {None, ""} /\ geom_col \in Range(df.columns)
             THEN geom_col ELSE df.columns[SetMin(candidates)])
    ELSE LatLngToGeoJSON(df,
             IF lat_col \notin {None, ""} THEN lat_col ELSE FirstColumn(LAT_NAMES, df),
             IF lng_col \notin {None, ""} THEN lng_col ELSE FirstColumn(LNG_NAMES, df))

\* _normalize_csv_text once the text is read into the frame df.
FrameToGeoJSON(df, lat_col, lng_col, geom_col, candidates) ==
    IF df.rows = <<>> THEN HTTPException(400, "CSV is empty")
    ELSE IF (geom_col \notin {None, ""} /\ geom_col \in Range(df.columns))
              \/ candidates # {}
    THEN _csv_geom_to_geojson(df,
             IF geom_col \notin {None, ""} /\ geom_col \in Range(df.columns)
             THEN geom_col ELSE df.columns[SetMin(candidates)])
    ELSE LatLngToGeoJSON(df,
             IF lat_col \notin {None, ""} THEN lat_col ELSE FirstColumn(LAT_NAMES, df),
             IF lng_col \notin {None, ""} THEN lng_col ELSE FirstColumn(LNG_NAMES, df))

\* A read error leaves the function as the exception pandas raised.
Frame(read, lat_col, lng_col, geom_col) ==
    IF ~read.ok THEN read
    ELSE FrameToGeoJSON(read.value, lat_col, lng_col, geom_col,
                        GeometryCandidates(read.value))

_normalize_csv_text(csv_text, lat_col, lng_col, geom_col, delimiter) ==
    Frame(read_csv(csv_text, delimiter), lat_col, lng_col, geom_col)

(***************************************************************************)
(* normalize_to_geojson (api/normalize.py): (geojson, detected format) or  *)
(* the exception that leaves the function.                                 *)
(***************************************************************************)
Detected(result, fmt) ==
    IF result.ok THEN [ok |-> TRUE, value |-> result.value, fmt |-> fmt] ELSE result

\* The CSV test made before the WKT prefix test.
normalize_to_geojsonCsvBeforeWkt(data, input_format) ==
    LET data_stripped == strip(data.v)
        parsed == json_loads(data_stripped)
    IN IF data.t = "str" THEN
            IF (startswith(data_stripped, "{") \/ startswith(data_stripped, "["))
                  /\ parsed.ok
            THEN Detected(detect_and_normalize_data(parsed.value),
                          IF parsed.value.t = "list" THEN "coordinates" ELSE "geojson")
            ELSE IF In("\n", data_stripped)
                      /\ (In(",", data_stripped) \/ In("\t", data_stripped))
            THEN Detected(_normalize_csv_text(data_stripped, None, None, None, ","),
                          "csv")
            ELSE IF HasWktPrefix(data_stripped, 5)
            THEN Detected(parse_wkt(data_stripped), "wkt")
            ELSE IF parse_wkt(data_stripped).ok
            THEN Detected(parse_wkt(data_stripped), "wkt")
            ELSE HTTPException(400, "Could not parse string data. Supported formats: GeoJSON, WKT, CSV text, coordinate arrays.")
       ELSE IF data.t = "list" THEN Detected(parse_coordinates(data), "coordinates")
       ELSE IF data.t = "dict" THEN Detected(detect_and_normalize_data(data), "geojson")
       ELSE HTTPException(400, "Unsupported data type")

normalize_to_geojson(data, input_format) ==
    LET data_stripped == strip(data.v)
        parsed == json_loads(data_stripped)
    IN IF data.t = "str" THEN
            IF (startswith(data_stripped, "{") \/ startswith(data_stripped, "["))
                  /\ parsed.ok
            THEN Detected(detect_and_normalize_data(parsed.value),
                          IF parsed.value.t = "list" THEN "coordinates" ELSE "geojson")
            ELSE IF HasWktPrefix(data_stripped, 5)
            THEN Detected(parse_wkt(data_stripped), "wkt")
            ELSE IF In("\n", data_stripped)
                      /\ (In(",", data_stripped) \/ In("\t", data_stripped))
            THEN Detected(_normalize_csv_text(data_stripped, None, None, None, ","),
                          "csv")
            ELSE IF parse_wkt(data_stripped).ok
            THEN Detected(parse_wkt(data_stripped), "wkt")
            ELSE HTTPException(400, "Could not parse string data. Supported formats: GeoJSON, WKT, CSV text, coordinate arrays.")
       ELSE IF data.t = "list" THEN Detected(parse_coordinates(data), "coordinates")
       ELSE IF data.t = "dict" THEN Detected(detect_and_normalize_data(data), "geojson")
       ELSE HTTPException(400, "Unsupported data type")

(***************************************************************************)
(* _validate_and_repair_geometries (api/normalize.py).  shapely is the     *)
(* geometry-repair collaborator: what shape() and is_valid make of the     *)
(* geometry of the k-th feature is verdict[k], one of                      *)
(*   "error"   - shape() or make_valid() raises,                           *)
(*   "valid"   - the geometry is constructed and valid,                    *)
(*   "invalid" - the geometry is constructed, not valid, and repaired.     *)
(***************************************************************************)
Verdicts == {"error", "valid", "invalid"}

\* bool(x)
Truthy(x) ==
    CASE x.t = "null" -> FALSE
      [] x.t = "bool" -> x.v
      [] x.t = "number" -> ("f" \in DOMAIN x) \/ x.v # 0
      [] x.t = "str" -> x.v # ""
      [] x.t = "list" -> x.v # <<>>
      [] x.t = "dict" -> DOMAIN x.v # {}

\* What a for loop over x runs through: the items of a list, the keys of a
\* dict, the characters of a string; None and numbers are not iterable.
Iterate(x) ==
    CASE x.t = "list" -> Ok(x.v)
      [] x.t = "dict" ->
            Ok(LET keys == DOMAIN x.v
                   order == CHOOSE seq \in [1..Cardinality(keys) -> keys] :
                                \A k \in keys : \E i \in DOMAIN seq : seq[i] = k
               IN [i \in DOMAIN order |-> JStr(order[i])])
      [] x.t = "str" -> Ok([i \in 1..Len(x.v) |-> JStr(Char(x.v, i))])
      [] OTHER -> Raised("TypeError")

\* mapping(make_valid(shp)): a valid geometry in place of the submitted
\* one, kept apart from it here as a collection that holds it.
make_valid(geom) ==
    JDict([type |-> JStr("GeometryCollection"), geometries |-> JList(<<geom>>)])

\* The loop body without the is_valid test: every geometry that could be
\* constructed is replaced by the repaired one.
RepairFeatureAlways(feature, verdict) ==
    IF feature.t # "dict" THEN Raised("AttributeError")
    ELSE IF ~Truthy(DictGet(feature, "geometry")) THEN Ok(feature)
    ELSE IF verdict \in {"valid", "invalid"}
    THEN Ok(JDict(DictPut(feature.v, "geometry", make_valid(feature.v.geometry))))
    ELSE Ok(feature)

\* The body of the loop for one feature: the feature after it, or the
\* exception of feature.get on a feature that is no object.
RepairFeature(feature, verdict) ==
    IF feature.t # "dict" THEN Raised("AttributeError")
    ELSE IF ~Truthy(DictGet(feature, "geometry")) THEN Ok(feature)
    ELSE IF verdict = "invalid"
    THEN Ok(JDict(DictPut(feature.v, "geometry", make_valid(feature.v.geometry))))
    ELSE Ok(feature)

RECURSIVE RepairFeaturesDroppingFailed(_, _, _, _)
\* The loop leaving out every feature whose geometry could not be
\* constructed.
RepairFeaturesDroppingFailed(features, verdicts, k, done) ==
    IF k > Len(features) THEN Ok(done)
    ELSE IF ~RepairFeature(features[k], verdicts[k]).ok
    THEN RepairFeature(features[k], verdicts[k])
    ELSE IF Truthy(DictGet(features[k], "geometry")) /\ verdicts[k] = "error"
    THEN RepairFeaturesDroppingFailed(features, verdicts, k + 1, done)
    ELSE RepairFeaturesDroppingFailed(features, verdicts, k + 1,
             Append(done, RepairFeature(features[k], verdicts[k]).value))

RECURSIVE RepairFeatures(_, _, _, _)
\* The loop over the features from position k on; done holds the features
\* already passed.
RepairFeatures(features, verdicts, k, done) ==
    IF k > Len(features) THEN Ok(done)
    ELSE IF ~RepairFeature(features[k], verdicts[k]).ok
    THEN RepairFeature(features[k], verdicts[k])
    ELSE RepairFeatures(features, verdicts, k + 1,
                        Append(done, RepairFeature(features[k], verdicts[k]).value))

\* The collection with its features replaced, when it has any.
WithFeatures(geojson, items) ==
    IF "features" \in DOMAIN geojson.v /\ geojson.v.features.t = "list"
    THEN JDict(DictPut(geojson.v, "features", JList(items)))
    ELSE geojson

\* verdicts[k] is the verdict for the k-th feature.
Repaired(geojson, iterated, verdicts) ==
    IF ~iterated.ok THEN iterated
    ELSE IF ~RepairFeatures(iterated.value, verdicts, 1, <<>>).ok
    THEN RepairFeatures(iterated.value, verdicts, 1, <<>>)
    ELSE Ok(WithFeatures(geojson, RepairFeatures(iterated.value, verdicts, 1, <<>>).value))

_validate_and_repair_geometries(geojson, verdicts) ==
    Repaired(geojson,
             Iterate(IF "features" \in DOMAIN geojson.v THEN geojson.v.features
                     ELSE JList(<<>>)),
             verdicts)

(***************************************************************************)
(* The metadata of normalize_data: extract_bounds and the loop over the    *)
(* features, on JSON values as the request carries them.  A step ends in   *)
(* a value or in the exception Python raises.                              *)
(***************************************************************************)
RECURSIVE ExtendEach(_, _)
\* for ring in rings: coords.extend(ring)
ExtendEach(rings, coords) ==
    IF rings = <<>> THEN Ok(coords)
    ELSE IF ~Iterate(Head(rings)).ok THEN Iterate(Head(rings))
    ELSE ExtendEach(Tail(rings), coords \o Iterate(Head(rings)).value)

\* The loop over an iterable that may not be one.
ExtendEachOf(iterated) ==
    IF ~iterated.ok THEN iterated ELSE ExtendEach(iterated.value, <<>>)

\* geom.get("coordinates", [])
CoordinatesOf(geom) ==
    IF "coordinates" \in DOMAIN geom.v THEN geom.v.coordinates ELSE JList(<<>>)

\* The positions _extract adds for a geometry that is no collection.
ExtractedCoords(type, geom_coords) ==
    IF type = JStr("Point") THEN Ok(<<geom_coords>>)
    ELSE IF type \in {JStr("LineString"), JStr("MultiPoint")} THEN Iterate(geom_coords)
    ELSE IF type \in {JStr("Polygon"), JStr("MultiLineString")}
    THEN ExtendEachOf(Iterate(geom_coords))
    ELSE IF type = JStr("MultiPolygon")
    THEN ExtendEachOf(ExtendEachOf(Iterate(geom_coords)))
    ELSE Ok(<<>>)

RECURSIVE ExtractJson(_)
RECURSIVE ExtractJsonMembers(_, _)
\* _extract(geom) of extract_bounds: the positions it adds to coords.
ExtractJson(geom) ==
    IF ~Truthy(geom) THEN Ok(<<>>)
    ELSE IF geom.t # "dict" THEN Raised("AttributeError")
    ELSE IF DictGet(geom, "type") = JStr("GeometryCollection")
    THEN IF "geometries" \notin DOMAIN geom.v THEN Ok(<<>>)
         ELSE IF ~Iterate(geom.v.geometries).ok THEN Iterate(geom.v.geometries)
         ELSE ExtractJsonMembers(Iterate(geom.v.geometries).value, <<>>)
    ELSE ExtractedCoords(DictGet(geom, "type"), CoordinatesOf(geom))

ExtractJsonMembers(members, coords) ==
    IF members = <<>> THEN Ok(coords)
    ELSE IF ~ExtractJson(Head(members)).ok THEN ExtractJson(Head(members))
    ELSE ExtractJsonMembers(Tail(members), coords \o ExtractJson(Head(members)).value)

\* A number in tenths; the numbers of the requests have one decimal at most.
Tenths(n) ==
    IF "f" \in DOMAIN n
    THEN (IF n.negative THEN -1 ELSE 1) * (10 * n.v + DigitValue(Char(n.f, 1)))
    ELSE 10 * n.v

\* min(values) and max(values) of numbers.
JsonMin(values) ==
    CHOOSE x \in Range(values) : \A y \in Range(values) : Tenths(x) <= Tenths(y)

JsonMax(values) ==
    CHOOSE x \in Range(values) : \A y \in Range(values) : Tenths(x) >= Tenths(y)

\* The end of extract_bounds on coords, and the bounds as the List[List[float]]
\* field of SpatialMetadata: a position without len() is a TypeError, a
\* bound that is no number (None, text that is no number) fails the
\* validation of the field.
BoundsOf(coords) ==
    LET sized == {"list", "str", "dict"}
        usable == SelectSeq(coords, LAMBDA c :
                      \/ (c.t \in {"list", "str"} /\ Len(c.v) >= 2)
                      \/ (c.t = "dict" /\ Cardinality(DOMAIN c.v) >= 2))
        lngs == [i \in DOMAIN usable |-> usable[i].v[1]]
        lats == [i \in DOMAIN usable |-> usable[i].v[2]]
    IN IF \E i \in DOMAIN coords : coords[i].t \notin sized THEN Raised("TypeError")
       ELSE IF \E i \in DOMAIN usable : usable[i].t = "dict" THEN Raised("KeyError")
       ELSE IF \E i \in DOMAIN usable : usable[i].t = "str" THEN Raised("ValidationError")
       ELSE IF usable = <<>>
       THEN Ok(<<<<JNum(-180), JNum(-85)>>, <<JNum(180), JNum(85)>>>>)
       ELSE IF \E i \in DOMAIN usable : lngs[i].t # "number" \/ lats[i].t # "number"
       THEN Raised("ValidationError")
       ELSE Ok(<<<<JsonMin(lngs), JsonMin(lats)>>, <<JsonMax(lngs), JsonMax(lats)>>>>)

\* extract_bounds(geojson) for the features the collection holds.
BoundsOfCollection(extracted) ==
    IF ~extracted.ok THEN extracted ELSE BoundsOf(extracted.value)

\* feature.get(key, {})
GetOrEmpty(feature, key) ==
    IF key \in DOMAIN feature.v THEN feature.v[key] ELSE JDict(<<>>)

\* The exception the metadata loop raises on a feature, None when it passes:
\* a feature or a geometry without get(), a type that cannot be hashed,
\* properties without keys().
FeatureError(feature) ==
    IF feature.t # "dict" THEN "AttributeError"
    ELSE IF Truthy(GetOrEmpty(feature, "geometry"))
              /\ GetOrEmpty(feature, "geometry").t # "dict"
    THEN "AttributeError"
    ELSE IF Truthy(GetOrEmpty(feature, "geometry"))
              /\ DictGet(GetOrEmpty(feature, "geometry"), "type").t \in {"list", "dict"}
    THEN "TypeError"
    ELSE IF GetOrEmpty(feature, "properties").t # "dict" THEN "AttributeError"
    ELSE None

\* geom_types after the loop.
GeometryTypes(features) ==
    {DictGet(features[k].v.geometry, "type") :
        k \in {i \in DOMAIN features : Truthy(GetOrEmpty(features[i], "geometry"))}}

\* all_props after the loop.
PropertyNames(features) ==
    UNION {DOMAIN GetOrEmpty(features[k], "properties").v : k \in DOMAIN features}

\* extract_bounds runs _extract on feature.get("geometry") of each feature.
ExtractedOfFeatures(features) ==
    ExtractJsonMembers([k \in DOMAIN features |-> DictGet(features[k], "geometry")], <<>>)

\* SpatialMetadata(...): geometry_types is a List[str], bounds a
\* List[List[float]]; a type that is no text fails the validation.
SpatialMetadata(features, bounds, detected_format) ==
    IF ~bounds.ok THEN bounds
    ELSE IF \E type \in GeometryTypes(features) : type.t # "str"
    THEN Raised("ValidationError")
    ELSE Ok([feature_count |-> Len(features),
             geometry_types |-> {type.v : type \in GeometryTypes(features)},
             bounds |-> bounds.value,
             crs |-> "EPSG:4326",
             properties |-> PropertyNames(features),
             input_format_detected |-> detected_format])

\* The metadata of the collection whose features are iterated.
MetadataOf(iterated, detected_format) ==
    IF ~iterated.ok THEN iterated
    ELSE IF \E k \in DOMAIN iterated.value : FeatureError(iterated.value[k]) # None
    THEN Raised("AttributeError")
    ELSE SpatialMetadata(iterated.value,
                         BoundsOfCollection(ExtractedOfFeatures(iterated.value)),
                         detected_format)

\* except HTTPException: raise; except Exception: HTTPException(400).
Caught(outcome) ==
    IF outcome.ok \/ outcome.status # 500 THEN outcome
    ELSE HTTPException(400, "Failed to normalize data")

\* NormalizeResponse(success=True, geojson=geojson, metadata=metadata)
NormalizeResponse(geojson, metadata) ==
    IF ~metadata.ok THEN Caught(metadata)
    ELSE [ok |-> TRUE, status |-> 200, success |-> TRUE, geojson |-> geojson,
          metadata |-> metadata.value]

\* normalize_data from the repaired collection on.
Described(repaired, detected_format) ==
    IF ~repaired.ok THEN Caught(repaired)
    ELSE NormalizeResponse(repaired.value,
             MetadataOf(Iterate(GetOrEmpty(repaired.value, "features")),
                        detected_format))

\* normalize_data from the result of the normalization step on, for a
\* request without source_crs (no reprojection).
normalize_data(result, verdicts) ==
    IF ~result.ok THEN Caught(result)
    ELSE Described(_validate_and_repair_geometries(result.value, verdicts), result.fmt)

(***************************************************************************)
(* normalize_to_geojson applied to one input.                              *)
(***************************************************************************)
\* The whitespace characters put before and after a string input.
MaxPad == 1

Pads == UNION {[1..n -> {" ", "\n"}] : n \in 0..MaxPad}

RECURSIVE Concat(_)
\* ''.join(chars)
Concat(chars) == IF chars = <<>> THEN "" ELSE Head(chars) \o Concat(Tail(chars))

StringBases ==
    {"{\"type\":\"Point\",\"coordinates\":[1,2]}",
     "{\"type\":\"FeatureCollection\",\"features\":[]}",
     "{\"type\":\"Feature\",\"geometry\":null,\"properties\":{}}",
     "{\"type\":\"GeometryCollection\",\"geometries\":[]}",
     "{\"type\":\"Topology\",\n\"a\":1}",
     "{}",
     "[1,2]",
     "[1,\n2]",
     "[[0,0],[1,1],[0,0]]",
     "[[0,0],\n[1,1]]",
     "[]",
     "[1,2,3]",
     "{lat,lng\n1,2",
     "[lat,lng\n1,2",
     "{abc",
     "[1,2",
     "POINT(1 2)",
     "point (1 2)",
     "LineString(0 0,1 1)",
     "POLYGON((0 0,1 0,1 1,0 0))",
     "MULTIPOINT(1 2)",
     "GEOMETRYCOLLECTION(POINT(1 2))",
     "multipoint((1 2))",
     "MULTILINESTRING((0 0,1 1))",
     "MULTIPOLYGON(((0 0,1 0,0 0)))",
     "POLYGON((0 0,1 0,0 0),(0 0,1 0,0 0))",
     "polygon ((0 0,1 0,0 0 ) , ( 0 0,1 0,0 0))",
     "POINT(-1.5 2)",
     "POINT( 3  4 )",
     "LINESTRING()",
     "LINESTRING(1)",
     "POLYGON(())",
     "POINT(1 2)\n,",
     "Polygon,lat\n1,2",
     "pointless",
     "POINT(1.2.3 4)",
     "lat,lng\n1,2",
     "lat,lng\n1,2\n95,3",
     "name,lat,lon\na,1,2\n,3,4",
     "a,b\n1,2",
     "lat\tlng\n1\t2",
     "wkt,name\nPOINT(1 2),a\nfoo,b",
     "lat,lng\nx,y",
     "lat,lng\n1,2\n3,4,5",
     "wkt,lat,lng\nPOINT(1 2),3,4",
     "lat,lng,geometry\n3,4,POINT(1 2)\n5,6,bad",
     "shape,lat,lng\nfoo,3,4",
     "g,lat,lng\nPOINT(1 2),3,4",
     "lat,lng\n1,200",
     "lat,lng\n-91,0\nx,1",
     "lat,lng\n,\n1,2\n90,-180",
     "id,lat,lng\n7,1.5,2\n8,,3\n9,4,5",
     "hello",
     "",
     "1 2",
     "a,b",
     "a\nb",
     "x point(1 2)"}

JPoint == JGeometry("Point", JList(<<JNum(1), JNum(2)>>))

JLine == JList(<<JList(<<JNum(0), JNum(0)>>), JList(<<JNum(1), JNum(1)>>)>>)

\* A polygon whose ring crosses itself.
BowTie ==
    JGeometry("Polygon",
        JList(<<JList(<<JList(<<JNum(0), JNum(0)>>), JList(<<JNum(1), JNum(1)>>),
                        JList(<<JNum(1), JNum(0)>>), JList(<<JNum(0), JNum(1)>>),
                        JList(<<JNum(0), JNum(0)>>)>>)>>))

ObjectInputs ==
    {JFeatureCollection(<<>>),
     JFeatureCollection(<<JFeature([name |-> JStr("a")], JPoint)>>),
     JFeatureCollection(<<JFeature(<<>>, JNull), JFeature(<<>>, JPoint)>>),
     JDict([type |-> JStr("FeatureCollection")]),
     JFeature([name |-> JStr("a")], JPoint),
     JFeature(<<>>, JNull),
     JDict([type |-> JStr("Feature")]),
     JPoint,
     JGeometry("LineString", JLine),
     JGeometry("Polygon", JList(<<JLine>>)),
     JGeometry("MultiPoint", JLine),
     JGeometry("MultiLineString", JList(<<JLine>>)),
     JGeometry("MultiPolygon", JList(<<JList(<<JLine>>)>>)),
     JDict([type |-> JStr("GeometryCollection"), geometries |-> JList(<<JPoint>>)]),
     JDict([type |-> JStr("GeometryCollection")]),
     JDict([type |-> JStr("Point")]),
     JDict([type |-> JStr("Topology")]),
     JDict([type |-> JStr("point"), coordinates |-> JList(<<JNum(1), JNum(2)>>)]),
     JDict([type |-> JStr("")]),
     JDict(<<>>),
     JDict([coordinates |-> JList(<<JNum(1), JNum(2)>>)]),
     JDict([type |-> JNull]),
     JDict([type |-> JNum(1)]),
     JDict([type |-> JList(<<JStr("Point")>>)]),
     JDict([type |-> JDict([type |-> JStr("Point")])]),
     JFeatureCollection(<<JNum(1), JFeature(<<>>, JPoint)>>),
     JFeatureCollection(<<JFeature(<<>>, JStr("abc")), JFeature(<<>>, JPoint)>>),
     JFeatureCollection(<<JFeature(<<>>, BowTie), JFeature([name |-> JStr("b")], JPoint)>>),
     JDict([type |-> JStr("FeatureCollection"), features |-> JNull]),
     JDict([type |-> JStr("Feature"), properties |-> JNull, geometry |-> JPoint]),
     JFeature(<<>>, BowTie)}

ArrayInputs ==
    {JList(<<>>),
     JList(<<JNum(1), JNum(2)>>),
     JList(<<JNum(1), JNum(2), JNum(3)>>),
     JLine,
     JList(<<JList(<<JNum(0), JNum(0)>>), JList(<<JNum(1), JNum(1)>>),
             JList(<<JNum(0), JNum(0)>>)>>),
     JList(<<JStr("a"), JNum(2)>>),
     JList(<<JNum(1), JStr("a")>>),
     JList(<<JNum(1), JNull>>),
     JList(<<JList(<<JNum(0), JNum(0)>>), JStr("x")>>),
     JList(<<JList(<<JNum(0), JNum(0)>>), JList(<<JNum(1), JNum(1), JNum(1)>>)>>),
     JList(<<JList(<<JNum(0), JNum(0)>>), JList(<<JNum(1), JNum(0)>>),
             JList(<<JNum(1), JNum(1)>>)>>),
     JList(<<JList(<<JNum(0), JNum(0)>>)>>),
     JList(<<JList(<<JNum(0), JNum(0)>>), JList(<<JNum(0), JNum(0)>>)>>),
     JList(<<JList(<<JNum(0)>>), JList(<<JNum(1), JNum(1)>>)>>),
     JList(<<JPoint>>)}

NormalizeInputs ==
    {JStr(Concat(before) \o base \o Concat(after)) :
        before \in Pads, base \in StringBases, after \in Pads}
        \cup ObjectInputs \cup ArrayInputs \cup {JNum(1), JNull}

InputFormats == {None, "geojson", "wkt", "csv"}

InitNormalize ==
    /\ now = 0
    /\ ip_requests = NoRequests
    /\ calls = <<>>
    /\ contributions = <<>>
    /\ points_ledger = <<>>
    /\ datasets = <<>>
    /\ response = Idle
    /\ input \in {[kind |-> "data", value |-> data] : data \in NormalizeInputs}
    /\ output = NoValue

\* The number of features the verdicts of shapely are drawn for.
FeatureCount(result) ==
    IF result.ok /\ "features" \in DOMAIN result.value.v
          /\ result.value.v.features.t = "list"
    THEN Len(result.value.v.features.v) ELSE 0

\* The request after the rate limit: the normalization step has given
\* result; shapely gives its verdicts and the handler answers.
\* The features of a list as the loop of _validate_and_repair_geometries
\* leaves them in place: it stops at the first feature that is no object.
RepairedInPlace(features, verdicts) ==
    [k \in DOMAIN features |->
        IF \E j \in 1..k : features[j].t # "dict" THEN features[k]
        ELSE RepairFeature(features[k], verdicts[k]).value]

\* body.data after the handler.  normalize_geojson returns a
\* FeatureCollection object itself and puts a Feature object itself into the
\* list it builds, so the repair loop writes into the object of the request;
\* a geometry object is wrapped and a string or an array is parsed into new
\* objects.
DataAfter(data, result, verdicts) ==
    IF ~result.ok \/ data.t # "dict" THEN data
    ELSE IF DictGet(data, "type") = JStr("FeatureCollection")
    THEN IF "features" \in DOMAIN data.v /\ data.v.features.t = "list"
         THEN JDict(DictPut(data.v, "features",
                            JList(RepairedInPlace(data.v.features.v, verdicts))))
         ELSE data
    ELSE IF DictGet(data, "type") = JStr("Feature")
    THEN RepairFeature(data, verdicts[1]).value
    ELSE data

Answer(kind, request, result) ==
    \E verdicts \in [1..FeatureCount(result) -> Verdicts] :
        output' = [kind |-> kind, options |-> request, result |-> result,
                   verdicts |-> verdicts,
                   data |-> DataAfter(input.value, result, verdicts),
                   response |-> normalize_data(result, verdicts)]

\* check_normalize_rate_limit refuses the request.
TooManyRequests ==
    output' = [kind |-> "rate_limited",
               response |-> HTTPException(429,
                   "Rate limit exceeded. Max 60 requests per minute.")]

\* POST /api/normalize.  A string with the hint "csv" goes to
\* _normalize_csv_text (NormalizeCsv); every other request goes through
\* normalize_to_geojson.
Normalize ==
    /\ input.kind = "data"
    /\ output = NoValue
    /\ \/ TooManyRequests
       \/ \E input_format \in InputFormats :
             /\ ~(input.value.t = "str" /\ input_format = "csv")
             /\ Answer("normalized", [input_format |-> input_format],
                       normalize_to_geojson(input.value, input_format))
    /\ UNCHANGED <<datasets, response, input, contributions, points_ledger, calls, ip_requests, now>>

\* The CSV options of a NormalizeRequest.
CsvOptions ==
    {[lat_column |-> lat, lng_column |-> lng, geometry_column |-> geom,
      delimiter |-> delimiter] :
        lat \in {None}, lng \in {None},
        geom \in {None, "g", "wkt", "lat", "nope"}, delimiter \in {","}}
    \cup {[lat_column |-> lat, lng_column |-> lng, geometry_column |-> None,
           delimiter |-> ","] : lat \in {"a", "lng", "zz"}, lng \in {None, "b", "lat"}}
    \cup {[lat_column |-> None, lng_column |-> None, geometry_column |-> None,
           delimiter |-> delimiter] : delimiter \in {None, "", "\t"}}

\* The texts sent with the hint "csv".
CsvTexts == {base \in StringBases : In("\n", base) \/ base \in {"", "a,b", "hello"}}

\* POST /api/normalize for a string with the hint "csv": the text, not
\* trimmed, goes to _normalize_csv_text with the options of the request.
NormalizeCsv ==
    /\ input.kind = "data"
    /\ input.value.t = "str"
    /\ input.value.v \in CsvTexts
    /\ output = NoValue
    /\ \/ TooManyRequests
       \/ \E options \in CsvOptions :
             Answer("normalized_csv", options,
                    Detected(_normalize_csv_text(input.value.v, options.lat_column,
                                 options.lng_column, options.geometry_column,
                                 IF options.delimiter \in {None, ""} THEN ","
                                 ELSE options.delimiter), "csv"))
    /\ UNCHANGED <<datasets, response, input, contributions, points_ledger, calls, ip_requests, now>>

NextNormalize == Normalize \/ NormalizeCsv

SpecNormalize == InitNormalize /\ [][NextNormalize]_vars

\* The type member of an object when it is a string, None otherwise.
TypeName(d) ==
    IF "type" \in DOMAIN d.v /\ d.v.type.t = "str" THEN d.v.type.v ELSE None

\* The result is a collection of exactly one Feature with empty properties
\* and the geometry d.
WrapsGeometry(r, d) ==
    /\ r.ok
    /\ r.value = JDict([type |-> JStr("FeatureCollection"),
                        features |-> JList(<<JDict([type |-> JStr("Feature"),
                                                     properties |-> JDict(<<>>),
                                                     geometry |-> d])>>)])

\* Object dispatch with the geometry types in wrapped.
ObjectDispatch(wrapped) ==
    (output.kind = "normalized" /\ input.value.t = "dict") =>
        LET d == input.value
            r == output.result
        IN /\ TypeName(d) = "FeatureCollection" => r.ok /\ r.value = d
           /\ TypeName(d) = "Feature" =>
                 /\ r.ok
                 /\ r.value = JDict([type |-> JStr("FeatureCollection"),
                                     features |-> JList(<<d>>)])
           /\ TypeName(d) \in wrapped => WrapsGeometry(r, d)
           /\ TypeName(d) \notin wrapped \cup {"FeatureCollection", "Feature"} =>
                 /\ ~r.ok
                 /\ r.status = 400
                 /\ r.detail = "Invalid GeoJSON structure"
                 /\ "value" \notin DOMAIN r
           /\ r.ok => r.fmt = "geojson"

\* C9: an object of type FeatureCollection is returned unchanged; an object
\* of type Feature is returned as a FeatureCollection whose features are
\* exactly [that feature]; a bare geometry of one of the seven geometry
\* types (Point, LineString, Polygon, MultiPoint, MultiLineString,
\* MultiPolygon, GeometryCollection) is returned as a FeatureCollection of
\* one Feature with empty properties and that geometry; an object of any
\* other type or without a type fails with InvalidGeoJSON (400) and yields
\* no collection.
C9_ObjectDispatchSevenTypes ==
    ObjectDispatch({"Point", "LineString", "Polygon", "MultiPoint",
                    "MultiLineString", "MultiPolygon", "GeometryCollection"})

\* C9 as stated: six geometry types are wrapped, every other type fails.
C9_ObjectDispatchSixTypes ==
    ObjectDispatch({"Point", "LineString", "Polygon", "MultiPoint",
                    "MultiLineString", "MultiPolygon"})

\* A bare GeometryCollection was wrapped.
C9_Witness ==
    /\ output.kind = "normalized"
    /\ input.value.t = "dict"
    /\ TypeName(input.value) = "GeometryCollection"
    /\ WrapsGeometry(output.result, input.value)

\* The string starts with keyword, letter case ignored.
StartsWithKeyword(s, keyword) ==
    /\ Len(s) >= Len(keyword)
    /\ \A i \in 1..Len(keyword) : Upper(Char(s, i)) = Char(keyword, i)

UnparsableInput ==
    [ok |-> FALSE, status |-> 400,
     detail |-> "Could not parse string data. Supported formats: GeoJSON, WKT, CSV text, coordinate arrays."]

\* C10: on the trimmed string, (1) a string that starts with { or [ and
\* parses as JSON is dispatched as the parsed object or array and nothing
\* else is tried; (2) otherwise a string that starts, letter case ignored,
\* with POINT, LINESTRING, POLYGON, MULTI or GEOMETRYCOLLECTION is parsed as
\* WKT; (3) otherwise a string with a newline and a comma or tab is treated
\* as CSV text; (4) otherwise WKT parsing is tried and its failure is
\* UnparsableInput.  The detected format is that of the step that produced
\* the result.
C10_StringDispatchOrder ==
    (output.kind = "normalized" /\ input.value.t = "str") =>
        LET s == strip(input.value.v)
            r == output.result
            parsed == json_loads(s)
            json == s # "" /\ Char(s, 1) \in {"{", "["} /\ parsed.ok
            keyword == \E k \in {"POINT", "LINESTRING", "POLYGON", "MULTI",
                                 "GEOMETRYCOLLECTION"} : StartsWithKeyword(s, k)
            delimited == /\ \E i \in 1..Len(s) : Char(s, i) = "\n"
                         /\ \E i \in 1..Len(s) : Char(s, i) \in {",", "\t"}
        IN IF json
           THEN IF parsed.value.t = "dict"
                THEN r = Detected(normalize_geojson(parsed.value), "geojson")
                ELSE r = Detected(parse_coordinates(parsed.value), "coordinates")
           ELSE IF keyword THEN r = Detected(parse_wkt(s), "wkt")
           ELSE IF delimited
           THEN r = Detected(_normalize_csv_text(s, None, None, None, ","), "csv")
           ELSE IF parse_wkt(s).ok THEN r = Detected(parse_wkt(s), "wkt")
           ELSE r = UnparsableInput

\* A padded string that starts with a WKT keyword and also holds a newline
\* and a comma was parsed as WKT.
C10_Witness ==
    /\ output.kind = "normalized"
    /\ input.value.t = "str"
    /\ input.value.v # strip(input.value.v)
    /\ StartsWithKeyword(strip(input.value.v), "POINT")
    /\ In("\n", strip(input.value.v))
    /\ In(",", strip(input.value.v))
    /\ output.result.ok
    /\ output.result.fmt = "wkt"

(***************************************************************************)
(* Coordinate arrays (parse_coordinates).                                  *)
(***************************************************************************)
\* A list of exactly two numbers.
NumericPair(x) ==
    x.t = "list" /\ Len(x.v) = 2 /\ \A i \in 1..2 : x.v[i].t = "number"

\* The collection of one Feature with empty properties and this geometry.
OneFeature(geometry) == JFeatureCollection(<<JFeature(<<>>, geometry)>>)

\* C11: an array of exactly two numbers normalizes to one Point feature with
\* the array as its coordinates; an array whose elements are all arrays of
\* two numbers normalizes to one Polygon of a single ring when it has more
\* than two elements and its first element equals its last, and to one
\* LineString otherwise; an array of any other shape fails with
\* UnparsableCoordinates (400).
C11_CoordinateArrayInference ==
    (output.kind = "normalized" /\ input.value.t = "list") =>
        LET coords == input.value
            items == coords.v
            r == output.result
        IN IF NumericPair(coords)
           THEN r.ok /\ r.value = OneFeature(JGeometry("Point", coords))
           ELSE IF items # <<>> /\ \A i \in DOMAIN items : NumericPair(items[i])
           THEN IF Len(items) > 2 /\ items[1] = items[Len(items)]
                THEN r.ok /\ r.value = OneFeature(JGeometry("Polygon", JList(<<coords>>)))
                ELSE r.ok /\ r.value = OneFeature(JGeometry("LineString", coords))
           ELSE ~r.ok /\ r.status = 400

(***************************************************************************)
(* The WKT path (parse_wkt).                                               *)
(***************************************************************************)
\* The trimmed string goes to the WKT parser by its keyword.
WktPath(s) ==
    /\ ~startswith(s, "{") /\ ~startswith(s, "[")
    /\ \E k \in {"POINT", "LINESTRING", "POLYGON", "MULTI", "GEOMETRYCOLLECTION"} :
          StartsWithKeyword(s, k)

\* A POLYGON text in which a ring is closed and another one follows.
MultiRing(s) ==
    /\ StartsWithKeyword(s, "POLYGON")
    /\ \E i \in 1..Len(s) :
          /\ Char(s, i) = ")"
          /\ SkipChars(s, i + 1, Whitespace) <= Len(s)
          /\ Char(s, SkipChars(s, i + 1, Whitespace)) = ","

\* The geometry of the only feature of a collection.
OnlyGeometry(value) == value.v.features.v[1].v.geometry

\* C12: the WKT path yields a geometry only for POINT, LINESTRING and
\* POLYGON text, a Polygon always of exactly one ring; POINT(x y) yields
\* exactly one Point feature with coordinates [x, y] in that order; every
\* MULTI* text, every GEOMETRYCOLLECTION text and every POLYGON of more than
\* one ring ends in an error and returns no FeatureCollection.
C12_WktPathParsesThreeForms ==
    (output.kind = "normalized" /\ input.value.t = "str"
        /\ WktPath(strip(input.value.v))) =>
        LET s == strip(input.value.v)
            r == output.result
            point == point_match(upper(s))
        IN /\ r.ok =>
                 /\ Len(r.value.v.features.v) = 1
                 /\ \/ /\ StartsWithKeyword(s, "POINT")
                       /\ OnlyGeometry(r.value).v.type = JStr("Point")
                    \/ /\ StartsWithKeyword(s, "LINESTRING")
                       /\ OnlyGeometry(r.value).v.type = JStr("LineString")
                    \/ /\ StartsWithKeyword(s, "POLYGON")
                       /\ OnlyGeometry(r.value).v.type = JStr("Polygon")
                       /\ Len(OnlyGeometry(r.value).v.coordinates.v) = 1
           /\ (point.ok /\ float(point.group1).ok /\ float(point.group2).ok) =>
                 /\ r.ok
                 /\ r.value = OneFeature(JGeometry("Point",
                                 JList(<<float(point.group1).value,
                                         float(point.group2).value>>)))
           /\ (StartsWithKeyword(s, "MULTI") \/ StartsWithKeyword(s, "GEOMETRYCOLLECTION")
                  \/ MultiRing(s)) =>
                 ~r.ok /\ "value" \notin DOMAIN r

\* A POLYGON of two rings ended in the ValueError of float().
C12_Witness ==
    /\ output.kind = "normalized"
    /\ input.value.t = "str"
    /\ WktPath(strip(input.value.v))
    /\ MultiRing(strip(input.value.v))
    /\ output.result = Raised("ValueError")

(***************************************************************************)
(* CSV text (_normalize_csv_text) under the hint "csv".                    *)
(***************************************************************************)
\* The delimiter normalize_data passes on.
Delimiter(options) ==
    IF options.delimiter \in {None, ""} THEN "," ELSE options.delimiter

\* The features of a result.
Features(r) == r.value.v.features.v

\* Every feature takes its geometry from column col of some row and keeps
\* every other column as a property; without a loadable geometry in the
\* column the text is refused.
GeometriesFromColumn(r, df, col) ==
    /\ r.ok =>
          \A k \in DOMAIN Features(r) :
              /\ \E i \in DOMAIN df.rows :
                    /\ LoadCell(df.rows[i][ColumnIndex(df, col)]).ok
                    /\ Features(r)[k].v.geometry =
                          LoadCell(df.rows[i][ColumnIndex(df, col)]).value
              /\ DOMAIN Features(r)[k].v.properties.v = Range(df.columns) \ {col}
    /\ ~r.ok => r = HTTPException(400, "No valid geometries found in geometry column")

\* Every feature is a Point and the pair columns are no properties of it.
GeometriesFromPair(r, df, lat_col, lng_col) ==
    /\ r.ok =>
          \A k \in DOMAIN Features(r) :
              /\ Features(r)[k].v.geometry.v.type = JStr("Point")
              /\ DOMAIN Features(r)[k].v.properties.v =
                    Range(df.columns) \ {lat_col, lng_col}
    /\ ~r.ok => r # HTTPException(400, "No valid geometries found in geometry column")

IsNumeric(cell) == cell.t = "number" \/ (cell.t = "str" /\ float(cell.v).ok)

\* The number a numeric cell holds.
NumericValue(cell) == IF cell.t = "str" THEN float(cell.v).value ELSE cell

\* |number| <= bound
AbsAtMost(number, bound) ==
    IF "f" \in DOMAIN number THEN number.v < bound
    ELSE -bound <= number.v /\ number.v <= bound

\* The k-th smallest member of a set of positions.
Nth(positions, k) ==
    CHOOSE i \in positions : Cardinality({j \in positions : j < i}) = k - 1

\* C14: on the lat/lng path a row whose latitude or longitude is missing,
\* not a number or out of range (|lat| > 90, |lng| > 180) is dropped and
\* the operation goes on; every other row yields exactly one Point feature
\* [lng, lat], in the order of the rows, so every emitted Point is within
\* range; with every row dropped the operation fails with
\* NoValidCoordinates (400) and returns no collection.
C14_CsvRowsOutOfRangeDropped ==
    output.kind = "normalized_csv" =>
        LET o == output.options
            r == output.result
            read == read_csv(input.value.v, Delimiter(o))
            df == read.value
            lat_col == IF o.lat_column # None THEN o.lat_column
                       ELSE FirstColumn(LAT_NAMES, df)
            lng_col == IF o.lng_column # None THEN o.lng_column
                       ELSE FirstColumn(LNG_NAMES, df)
            pair == /\ read.ok /\ df.rows # <<>>
                    /\ ~(o.geometry_column \notin {None, ""}
                           /\ o.geometry_column \in Range(df.columns))
                    /\ GeometryCandidates(df) = {}
                    /\ lat_col \in Range(df.columns) /\ lng_col \in Range(df.columns)
            lat(i) == df.rows[i][ColumnIndex(df, lat_col)]
            lng(i) == df.rows[i][ColumnIndex(df, lng_col)]
            usable == {i \in DOMAIN df.rows :
                          /\ IsNumeric(lat(i)) /\ IsNumeric(lng(i))
                          /\ AbsAtMost(NumericValue(lat(i)), 90)
                          /\ AbsAtMost(NumericValue(lng(i)), 180)}
        IN pair =>
              IF usable = {}
              THEN r = HTTPException(400, "No valid coordinates found in CSV")
              ELSE /\ r.ok
                   /\ Len(Features(r)) = Cardinality(usable)
                   /\ \A k \in DOMAIN Features(r) :
                          Features(r)[k].v.geometry =
                              JGeometry("Point",
                                  JList(<<NumericValue(lng(Nth(usable, k))),
                                          NumericValue(lat(Nth(usable, k)))>>))

\* Of three rows the first, without values, was dropped; the row at the
\* edge of the range was kept.
C14_Witness ==
    /\ output.kind = "normalized_csv"
    /\ input.value.v = "lat,lng\n,\n1,2\n90,-180"
    /\ output.options.geometry_column = None
    /\ output.options.lat_column = None
    /\ output.result.ok
    /\ Len(Features(output.result)) = 2
    /\ Features(output.result)[2].v.geometry =
          JGeometry("Point", JList(<<JNum(-180), JNum(90)>>))

(***************************************************************************)
(* The answer of POST /api/normalize.                                      *)
(***************************************************************************)
\* The request was answered by the normalize handler with success.
Normalized ==
    /\ output.kind \in {"normalized", "normalized_csv"}
    /\ output.response.ok

\* C15: every FeatureCollection a successful normalization returns holds at
\* least one feature; an input that would give an empty collection, the
\* object {type: FeatureCollection, features: []} included, ends in a
\* validation error.
C15_NormalizedCollectionNotEmpty ==
    Normalized =>
        /\ "features" \in DOMAIN output.response.geojson.v
        /\ output.response.geojson.v.features.t = "list"
        /\ output.response.geojson.v.features.v # <<>>
        /\ output.response.metadata.feature_count >= 1

(***************************************************************************)
(* Ingestion guardrails.                                                   *)
(***************************************************************************)
\* The feature yields at least one coordinate pair.
YieldsCoordinates(feature) ==
    LET geom == Get(feature, "geometry", <<>>)
    IN /\ geom # <<>>
       /\ _extract_coords(geom, <<>>, <<>>).lngs # <<>>

\* A FeatureCollection of 1 to 100,000 features, at most 50 MB serialized,
\* with a feature that yields a coordinate pair.
Acceptable(data) ==
    /\ Get(data, "type", None) = "FeatureCollection"
    /\ Len(Get(data, "features", <<>>)) \in 1..100000
    /\ JsonLen(data) <= 50 * 1024 * 1024
    /\ \E i \in DOMAIN data.features : YieldsCoordinates(data.features[i])

\* A create_dataset request has just been answered.
CreateAnswered == response.kind = "none" /\ response'.kind = "create_dataset"

\* C16: ingestion stores a payload only if it is a FeatureCollection with 1
\* to 100,000 features, at most 50 MB serialized and at least one coordinate
\* pair; every other payload is answered with an error, and a rejected
\* request adds no record, records no contribution and awards no points.
C16_IngestionGuardrails ==
    [][CreateAnswered =>
          IF response'.status = 200
          THEN /\ response'.id \notin DOMAIN datasets
               /\ response'.id \in DOMAIN datasets'
               /\ Acceptable(datasets'[response'.id].data)
          ELSE /\ response'.status \in {400, 429}
               /\ UNCHANGED <<datasets, contributions, points_ledger, calls, ip_requests, now>>]_vars

\* A payload over the size limit was refused while the catalog, the
\* contributions and the points of an earlier upload are in place.
C16_Witness ==
    /\ response.kind = "create_dataset"
    /\ response.status = 400
    /\ response.detail = "Dataset too large"
    /\ datasets # <<>>
    /\ contributions # <<>>
    /\ points_ledger # <<>>

(***************************************************************************)
(* Normalizing a second time.                                              *)
(***************************************************************************)
\* The verdicts of shapely on the features of a returned collection: a
\* geometry that was repaired is valid, every other one is as it was.
VerdictsAfterRepair(verdicts) ==
    [k \in DOMAIN verdicts |-> IF verdicts[k] = "invalid" THEN "valid" ELSE verdicts[k]]

\* The answer to a request whose data is the collection c.
NormalizedAgain(c, input_format, verdicts) ==
    normalize_data(normalize_to_geojson(c, input_format), VerdictsAfterRepair(verdicts))

\* The answer to the same request sent once more.
NormalizedTwice(kind, data, options, verdicts) ==
    IF kind = "normalized"
    THEN normalize_data(normalize_to_geojson(data, options.input_format), verdicts)
    ELSE normalize_data(
             Detected(_normalize_csv_text(data.v, options.lat_column, options.lng_column,
                          options.geometry_column,
                          IF options.delimiter \in {None, ""} THEN "," ELSE options.delimiter),
                      "csv"),
             verdicts)

HasFeatureList(geojson) ==
    /\ "features" \in DOMAIN geojson.v
    /\ geojson.v.features.t = "list"

\* The members of a feature other than its geometry are the same.
SameButGeometry(before, after) ==
    /\ after.t = "dict"
    /\ DOMAIN after.v = DOMAIN before.v
    /\ \A key \in DOMAIN before.v \ {"geometry"} : after.v[key] = before.v[key]

\* The k-th feature after the repair against the one submitted.
FeatureKept(before, after, verdict) ==
    /\ SameButGeometry(before, after)
    /\ IF Truthy(DictGet(before, "geometry")) /\ verdict = "invalid"
       THEN after.v.geometry = make_valid(before.v.geometry)
       ELSE after = before

\* The collection returned by the repair against the one submitted.
ShapeKept(before, after, verdicts) ==
    IF HasFeatureList(before)
    THEN /\ HasFeatureList(after)
         /\ \A key \in DOMAIN before.v \ {"features"} : after.v[key] = before.v[key]
         /\ DOMAIN after.v = DOMAIN before.v
         /\ Len(after.v.features.v) = Len(before.v.features.v)
         /\ \A k \in DOMAIN before.v.features.v :
               FeatureKept(before.v.features.v[k], after.v.features.v[k], verdicts[k])
    ELSE after = before

\* The outcome of the repair step of the answered request.
RepairOutcome == _validate_and_repair_geometries(output.result.value, output.verdicts)

\* The repair step of the answered request ran and returned.
RepairReturned ==
    /\ output.kind \in {"normalized", "normalized_csv"}
    /\ output.result.ok
    /\ RepairOutcome.ok

\* C18: the collection validate_and_repair returns has the features of
\* the submitted one, as many and in the same order, each with its
\* properties unchanged; a geometry that is absent, valid or cannot be
\* constructed is left as submitted and only an invalid one is replaced.
C18_RepairPreservesShape ==
    RepairReturned => ShapeKept(output.result.value, RepairOutcome.value, output.verdicts)

\* Three features went through the repair: one invalid and replaced, one
\* that could not be constructed, one valid.
C18_Witness ==
    /\ RepairReturned
    /\ HasFeatureList(output.result.value)
    /\ \E i, j, k \in DOMAIN output.verdicts :
          /\ output.verdicts[i] = "invalid"
          /\ Truthy(DictGet(output.result.value.v.features.v[i], "geometry"))
          /\ RepairOutcome.value.v.features.v[i] # output.result.value.v.features.v[i]
          /\ output.verdicts[j] = "error"
          /\ Truthy(DictGet(output.result.value.v.features.v[j], "geometry"))
          /\ output.verdicts[k] = "valid"

\* The repair step of the answered request ran.
RepairRan ==
    /\ output.kind \in {"normalized", "normalized_csv"}
    /\ output.result.ok

\* C19: validate_and_repair never raises: an error met at a feature, a
\* feature that is no object included, is caught at that feature, which
\* keeps its geometry, and the features after it are still processed.
C19_RepairNeverRaises ==
    RepairRan =>
        /\ RepairOutcome.ok
        /\ ShapeKept(output.result.value, RepairOutcome.value, output.verdicts)

(***************************************************************************)
(* What later operations change in a stored record.                        *)
(***************************************************************************)
\* The row after differs from the row before in the given columns at most.
OnlyChanged(before, after, columns) ==
    /\ DOMAIN after = DOMAIN before
    /\ \A column \in DOMAIN before \ columns : after[column] = before[column]

\* What the step may have done to the stored record d.
RecordFrame(d) ==
    IF d \notin DOMAIN datasets'
    THEN response'.kind = "delete_dataset" /\ response'.status = 200
    ELSE \/ datasets'[d] = datasets[d]
         \/ /\ response'.kind = "update_dataset"
            /\ response'.status = 200
            /\ OnlyChanged(datasets[d], datasets'[d], {"title", "category"})
         \/ /\ response'.kind = "get_dataset_data"
            /\ response'.status = 200
            /\ OnlyChanged(datasets[d], datasets'[d], {"query_count"})
            /\ datasets'[d].query_count = datasets[d].query_count + 1

\* The increment of used_in_maps moves that counter of that row only.
UsedInMapsFrame(d) ==
    /\ DOMAIN increment_dataset_used_in_maps(datasets, d) = DOMAIN datasets
    /\ \A e \in DOMAIN datasets \ {d} :
          increment_dataset_used_in_maps(datasets, d)[e] = datasets[e]
    /\ OnlyChanged(datasets[d], increment_dataset_used_in_maps(datasets, d)[d],
                   {"used_in_maps"})

MaxCallers == 3

Callers == 1..MaxCallers

Counters == {"query_count", "used_in_maps"}

\* The row as create_dataset stores it.
StoredRecord(dataset_id) ==
    db_create_dataset(dataset_id, "t1", "other", BodyPoints,
                      validate_geojson(BodyPoints), None, None)

\* Catalogs of one and of two records.
Catalogs ==
    {[d \in ids |-> StoredRecord(d)] : ids \in {{1}, DatasetIds}}

NotCalled == [pc |-> "idle"]

InitCounters ==
    /\ now = 0
    /\ ip_requests = NoRequests
    /\ datasets \in Catalogs
    /\ calls = [p \in Callers |-> NotCalled]
    /\ response = Idle
    /\ input = NoValue
    /\ output = NoValue
    /\ contributions = <<>>
    /\ points_ledger = <<>>

\* A transaction that has written the row and not yet committed.
Locked(dataset_id) ==
    \E q \in Callers : calls[q].pc = "executed" /\ dataset_id \in DOMAIN calls[q].rows

\* The table as the UPDATE of the call leaves it; no row matches an id
\* that is not stored.
Incremented(table, counter, dataset_id) ==
    IF dataset_id \notin DOMAIN table THEN table
    ELSE IF counter = "query_count" THEN increment_dataset_query_count(table, dataset_id)
    ELSE increment_dataset_used_in_maps(table, dataset_id)

\* The rows of after that differ from those of before.
Written(before, after) ==
    [d \in {e \in DOMAIN after : after[e] # before[e]} |-> after[d]]

\* conn.execute("UPDATE datasets SET c = c + 1 WHERE id = ?") in the
\* transaction of caller p: it waits for the lock of every row it writes.
Execute(p) ==
    /\ calls[p].pc = "idle"
    /\ \E dataset_id \in DatasetIds, counter \in Counters :
          /\ \A d \in DOMAIN Written(datasets, Incremented(datasets, counter, dataset_id)) :
                ~Locked(d)
          /\ calls' = [calls EXCEPT ![p] =
                [pc |-> "executed", dataset_id |-> dataset_id, counter |-> counter,
                 rows |-> Written(datasets, Incremented(datasets, counter, dataset_id))]]
    /\ UNCHANGED <<datasets, response, input, output, contributions, points_ledger,
                   ip_requests, now>>

\* conn.commit() of caller p: the rows it wrote become the stored ones.
Commit(p) ==
    /\ calls[p].pc = "executed"
    /\ datasets' = [d \in DOMAIN datasets |->
                       IF d \in DOMAIN calls[p].rows THEN calls[p].rows[d]
                       ELSE datasets[d]]
    /\ calls' = [calls EXCEPT ![p] =
          [pc |-> "done", dataset_id |-> @.dataset_id, counter |-> @.counter]]
    /\ UNCHANGED <<response, input, output, contributions, points_ledger,
                   ip_requests, now>>

ExecuteSome == \E p \in Callers : Execute(p)

CommitSome == \E p \in Callers : Commit(p)

NextCounters == ExecuteSome \/ CommitSome

SpecCounters == InitCounters /\ [][NextCounters]_vars

\* The number of completed increments of the counter of the record.
Completed(dataset_id, counter) ==
    Cardinality({p \in Callers : /\ calls[p].pc = "done"
                                 /\ calls[p].dataset_id = dataset_id
                                 /\ calls[p].counter = counter})

\* C21: query_count and used_in_maps never decrease; under every
\* interleaving of concurrent increments, n completed increments of a
\* counter of a record have raised it by exactly n, and nothing else of
\* that record or of another record has changed.
C21_CountersAtomic ==
    /\ [](\A d \in DOMAIN datasets :
            datasets[d] = [StoredRecord(d) EXCEPT
                              !.query_count = Completed(d, "query_count"),
                              !.used_in_maps = Completed(d, "used_in_maps")])
    /\ [][\A d \in DOMAIN datasets :
            /\ d \in DOMAIN datasets'
            /\ \A counter \in Counters : datasets'[d][counter] >= datasets[d][counter]]_vars

\* Three concurrent calls on the same counter of the same record have
\* completed while a second record is stored.
C21_Witness ==
    /\ DOMAIN datasets = DatasetIds
    /\ \A p \in Callers : calls[p] = [pc |-> "done", dataset_id |-> 1,
                                        counter |-> "query_count"]
    /\ datasets[1].query_count = MaxCallers

(***************************************************************************)
(* The value of the caller after the call.                                 *)
(***************************************************************************)
\* The normalize handler answered the request.
NormalizeAnswered == output.kind \in {"normalized", "normalized_csv"}

\* C22: normalization, validation/repair and metadata extraction leave
\* their input as it was: after the call the value the caller passed, every
\* geometry of an input FeatureCollection included, equals the one before
\* the call.
C22_InputUnchanged ==
    NormalizeAnswered => output.data = input.value

(***************************************************************************)
(* The legacy download with a bbox filter over a stored dataset.           *)
(***************************************************************************)
\* A line with an entry of one number next to a point: validate_geojson
\* skips the short entry and stores the collection.
BodyShort ==
    FeatureCollection(<<Feature([name |-> "a"], LineString(<<<<0, 0>>, <<2>>>>)),
                        Feature([name |-> "b"], Point(2, 2))>>)

FilterBodies ==
    {BodyPoints, BodyLines, BodyPolygons, BodyCollection, BodyShort}

\* The bbox parameter: absent, one that float() refuses, three numbers,
\* four numbers.
BBoxParts ==
    {[kind |-> "absent"], [kind |-> "invalid"], [kind |-> "parts", parts |-> <<0, 0, 1>>]}
    \cup {[kind |-> "parts", parts |-> <<w, s, e, n>>] :
             w \in Coords, s \in Coords, e \in Coords, n \in Coords}

\* The catalog after one upload.
InitFilter ==
    /\ now = 0
    /\ ip_requests = NoRequests
    /\ datasets \in {[d \in {1} |->
                        db_create_dataset(d, "t1", "other", data, validate_geojson(data),
                                          None, None)] : data \in FilterBodies}
    /\ response = Idle
    /\ input = NoValue
    /\ output = NoValue
    /\ contributions = <<>>
    /\ points_ledger = <<>>
    /\ calls = <<>>

DownloadFiltered ==
    /\ response = Idle
    /\ \E dataset_id \in DatasetIds, parts \in BBoxParts :
          get_dataset_geojson_compat(dataset_id, parts)

NextFilter == DownloadFiltered \/ Return

SpecFilter == InitFilter /\ [][NextFilter]_vars

\* The pairs the two extractors of api/datasets.py yield for a geometry.
ExtractedPairs(geom) ==
    {<<_extract_coords(geom, <<>>, <<>>).lngs[i], _extract_coords(geom, <<>>, <<>>).lats[i]>> :
        i \in DOMAIN _extract_coords(geom, <<>>, <<>>).lngs}

FlatPairs(geom) == Pairs(_flat_coords(geom))

\* The geometries of the stored features.
StoredGeometries ==
    UNION {{datasets[d].data.features[i].geometry :
               i \in {j \in DOMAIN datasets[d].data.features :
                         "geometry" \in DOMAIN datasets[d].data.features[j]}} :
           d \in DOMAIN datasets}

\* C23: the extractor behind the dataset bbox and the bbox feature filter
\* follows the recursion rule for every geometry type, GeometryCollection
\* included: it yields the coordinates of every member geometry.
C23_ExtractorFollowsRecursionRule ==
    \A geom \in StoredGeometries :
        /\ ExtractedPairs(geom) = extract_coordinates(geom)
        /\ FlatPairs(geom) = extract_coordinates(geom)

\* A download with a bbox parameter of four numbers was answered.
FilterAnswered ==
    /\ response.kind = "get_dataset_geojson_compat"
    /\ response.status # 404
    /\ response.bbox.kind = "parts"
    /\ Len(response.bbox.parts) = 4

\* A pair of the set lies in the box w, s, e, n.
SomeInside(pairs, box) ==
    \E pair \in pairs : /\ box[1] <= pair[1] /\ pair[1] <= box[3]
                        /\ box[2] <= pair[2] /\ pair[2] <= box[4]

\* The well-formed pairs of the feature: entries of two or more numbers of
\* a geometry of the six coordinate-bearing types.
WellFormedPairs(feature) ==
    IF "geometry" \in DOMAIN feature THEN ExtractedPairs(feature.geometry) ELSE {}

\* Every feature of the stored collection carries a geometry object.
AllWithGeometry(data) ==
    \A i \in DOMAIN data.features : "geometry" \in DOMAIN data.features[i]

\* C24: coordinate extraction never fails on malformed entries: a missing
\* coordinates member and an entry shorter than two numbers are skipped
\* without an error by the extractor and by the bbox feature filter built
\* on it, and every well-formed pair of the geometry and of the other
\* features is still yielded.
C24_MalformedEntriesSkipped ==
    /\ \A geom \in StoredGeometries :
          geom.type # "GeometryCollection" =>
              ExtractedPairs(geom) = extract_coordinates(geom)
    /\ (FilterAnswered /\ AllWithGeometry(datasets[response.id].data)) =>
          /\ response.status = 200
          /\ response.geojson.features =
                SelectSeq(datasets[response.id].data.features,
                          LAMBDA f : SomeInside(WellFormedPairs(f), response.bbox.parts))

(***************************************************************************)
(* The coordinates of parsed arrays and WKT.                               *)
(***************************************************************************)
\* A sequence of at least two numbers.
LeafCoordinate(x) ==
    /\ x.t = "list"
    /\ Len(x.v) >= 2
    /\ \A i \in DOMAIN x.v : x.v[i].t = "number"

\* At least one coordinate, every one of them a leaf.
LeafList(x) ==
    /\ x.t = "list"
    /\ x.v # <<>>
    /\ \A i \in DOMAIN x.v : LeafCoordinate(x.v[i])

\* The geometry of a parsed array or WKT text is sound.
SoundGeometry(geometry) ==
    CASE geometry.v.type = JStr("Point") -> LeafCoordinate(geometry.v.coordinates)
      [] geometry.v.type = JStr("LineString") -> LeafList(geometry.v.coordinates)
      [] geometry.v.type = JStr("Polygon") ->
            /\ geometry.v.coordinates.t = "list"
            /\ \A i \in DOMAIN geometry.v.coordinates.v :
                  LeafList(geometry.v.coordinates.v[i])
      [] OTHER -> FALSE

\* A coordinate array or a WKT text was normalized.
ArrayOrWktNormalized ==
    /\ output.kind = "normalized"
    /\ output.result.ok
    /\ output.result.fmt \in {"coordinates", "wkt"}

\* C25: in every collection returned by coordinate-array or WKT
\* normalization every leaf coordinate is a sequence of at least two
\* numbers, and a LineString or Polygon ring has at least one coordinate.
C25_LeafCoordinatesArePairs ==
    ArrayOrWktNormalized =>
        \A i \in DOMAIN output.result.value.v.features.v :
            SoundGeometry(output.result.value.v.features.v[i].v.geometry)

(***************************************************************************)
(* Completeness of ingested datasets.                                      *)
(***************************************************************************)
\* Collections of point features with the given properties.
PointsWith(props) ==
    FeatureCollection([i \in DOMAIN props |-> Feature(props[i], Point(i % 3, 0))])

\* No property at all; all complete; a null value; a missing key; one of
\* three and two of three complete; none complete.
CompletenessBodies ==
    {PointsWith(<< <<>>, <<>> >>),
     PointsWith(<<[name |-> "a"], [name |-> "b"]>>),
     PointsWith(<<[name |-> "a"], [name |-> None]>>),
     PointsWith(<<[name |-> "a"], [kind |-> "b"], [name |-> "c", kind |-> "d"]>>),
     PointsWith(<<[name |-> "a", kind |-> "b"], <<>>, [name |-> "c", kind |-> "d"]>>),
     PointsWith(<<[name |-> None], [kind |-> "b"]>>)}

Ingest ==
    /\ response = Idle
    /\ \/ /\ DOMAIN datasets # DatasetIds
          /\ \E data \in CompletenessBodies, authorization \in {None, "Bearer tok1"} :
                 create_dataset("t1", "other", data, authorization, TRUE)
       \/ create_dataset("t1", "other", FeatureCollection(<<>>), None, TRUE)
       \/ create_dataset("t1", "other", BodyPoints, None, FALSE)

NextIngest == Ingest \/ Return

SpecIngest == Init /\ [][NextIngest]_vars

\* The union of the property keys over the features.
KeyUnion(features) == UNION {DOMAIN features[i].properties : i \in DOMAIN features}

\* The features holding a non-null value for every key of the union.
CompleteFeatures(features) ==
    {i \in DOMAIN features :
        \A key \in KeyUnion(features) :
            /\ key \in DOMAIN features[i].properties
            /\ features[i].properties[key] # None}

\* thousandths is num / den rounded to three decimals.
RoundedTo3(thousandths, num, den) ==
    /\ 2 * (thousandths * den - 1000 * num) <= den
    /\ 2 * (1000 * num - thousandths * den) <= den

\* C26: the completeness of an ingested dataset is 1.0 when no feature has
\* a property key, and otherwise the number of features holding a non-null
\* value for every key of the union of the keys, divided by the feature
\* count and rounded to 3 decimals; it lies in [0, 1], and a missing key
\* counts like a null value.
C26_Completeness ==
    \A d \in DOMAIN datasets :
        /\ datasets[d].completeness \in 0..1000
        /\ IF KeyUnion(datasets[d].data.features) = {}
           THEN datasets[d].completeness = 1000
           ELSE RoundedTo3(datasets[d].completeness,
                           Cardinality(CompleteFeatures(datasets[d].data.features)),
                           Len(datasets[d].data.features))

\* Stored: a dataset with two of three features complete (0.667) next to
\* one whose only gaps are missing keys (0.333).
C26_Witness ==
    /\ DOMAIN datasets = DatasetIds
    /\ datasets[1].completeness = 667
    /\ datasets[2].completeness = 333
    /\ \E i \in DOMAIN datasets[2].data.features :
          /\ datasets[2].data.features[i].properties # <<>>
          /\ KeyUnion(datasets[2].data.features)
                # DOMAIN datasets[2].data.features[i].properties
          /\ \A key \in DOMAIN datasets[2].data.features[i].properties :
                datasets[2].data.features[i].properties[key] # None

(***************************************************************************)
(* The legacy bbox feature filter.                                         *)
(***************************************************************************)
\* The pairs the filter extracts from a stored feature.
FilterPairs(feature) ==
    IF "geometry" \in DOMAIN feature THEN FlatPairs(feature.geometry) ELSE {}

\* C27: a download with a bbox parameter of four numbers w, s, e, n returns
\* the FeatureCollection of exactly the stored features that have an
\* extracted pair with w <= lng <= e and s <= lat <= n, in stored order; no
\* feature wholly outside the box is returned.
C27_BBoxFilterExact ==
    FilterAnswered =>
        /\ response.status = 200
        /\ response.geojson.type = "FeatureCollection"
        /\ \A i \in DOMAIN response.geojson.features :
              SomeInside(FilterPairs(response.geojson.features[i]), response.bbox.parts)
        /\ response.geojson.features =
              SelectSeq(datasets[response.id].data.features,
                        LAMBDA f : SomeInside(FilterPairs(f), response.bbox.parts))

(***************************************************************************)
(* Ownership of the records.  A request in flight is held in input until   *)
(* its handler has answered it.                                            *)
(***************************************************************************)
\* The (uploader_id, uploader_email) pairs create_dataset stores: body.email
\* when it is given, else the email of the token; the sub of the token.
Uploaders ==
    {[id |-> None, email |-> None],
     [id |-> None, email |-> "u2@x.io"],
     [id |-> "u1", email |-> "u1@x.io"],
     [id |-> "u1", email |-> "u2@x.io"],
     [id |-> "u2", email |-> "u2@x.io"]}

\* The row create_dataset stores for an uploader.
RecordOf(dataset_id, uploader) ==
    db_create_dataset(dataset_id, "t1", "other", BodyPoints,
                      validate_geojson(BodyPoints), uploader.id, uploader.email)

InitOwner ==
    /\ now = 0
    /\ ip_requests = NoRequests
    /\ datasets \in {[d \in ids |-> RecordOf(d, by[d])] :
                        ids \in {{1}, DatasetIds}, by \in [DatasetIds -> Uploaders]}
    /\ response = Idle
    /\ input = NoValue
    /\ output = NoValue
    /\ contributions = <<>>
    /\ points_ledger = <<>>
    /\ calls = <<>>

\* A PUT or DELETE request arrives with its path and its Authorization header.
Receive ==
    /\ response = Idle
    /\ \E dataset_id \in DatasetIds, authorization \in AuthHeaders :
          input' = [kind |-> "request", dataset_id |-> dataset_id,
                    authorization |-> authorization]
    /\ UNCHANGED <<datasets, response, output, contributions, points_ledger, calls, ip_requests, now>>

UpdateReceived ==
    /\ response = Idle
    /\ input.kind = "request"
    /\ \E title \in {None, "t2"}, category \in {None, "other", "bogus"} :
          update_dataset(input.dataset_id, title, category, input.authorization)

DeleteReceived ==
    /\ response = Idle
    /\ input.kind = "request"
    /\ delete_dataset(input.dataset_id, input.authorization)

NextOwner == Receive \/ UpdateReceived \/ DeleteReceived \/ Return

SpecOwner == InitOwner /\ [][NextOwner]_vars

\* The request carries a valid token.
ValidToken(authorization) ==
    /\ authorization # None
    /\ StartsWithBearer(authorization)
    /\ verify_jwt(authorization) # <<>>

\* The identity of the token is that of the uploader of the record: the
\* same user id or the same email, an absent one matching nothing.
IsCreator(ds, authorization) ==
    /\ ValidToken(authorization)
    /\ \/ /\ Get(verify_jwt(authorization), "sub", None) # None
          /\ ds.uploader_id # None
          /\ ds.uploader_id = Get(verify_jwt(authorization), "sub", None)
       \/ /\ Get(verify_jwt(authorization), "email", None) # None
          /\ ds.uploader_email # None
          /\ ds.uploader_email = Get(verify_jwt(authorization), "email", None)

\* The step in which update_dataset or delete_dataset answers the request.
OwnerAnswered ==
    /\ response = Idle
    /\ response' # Idle
    /\ response'.kind \in {"update_dataset", "delete_dataset"}

\* C28: only the creator can delete or update a dataset.  A delete or update
\* succeeds only when the request carries a valid token whose user id is the
\* uploader id of the record or whose email is its uploader email, absent
\* identities matching nothing; a request without a token or with an invalid
\* one gets 401 and one of another identity 403, the catalog staying as it
\* was; a request for an id that is not stored gets 404.
C28_OnlyCreatorWrites ==
    [][OwnerAnswered =>
         /\ input.dataset_id \notin DOMAIN datasets =>
               response'.status = 404 /\ datasets' = datasets
         /\ input.dataset_id \in DOMAIN datasets =>
               /\ response'.status # 404
               /\ response'.status = 200 =>
                     IsCreator(datasets[input.dataset_id], input.authorization)
               /\ ~ValidToken(input.authorization) => response'.status = 401
               /\ (ValidToken(input.authorization)
                     /\ ~IsCreator(datasets[input.dataset_id], input.authorization)) =>
                     response'.status = 403
         /\ response'.status # 200 => datasets' = datasets
         /\ \A d \in DOMAIN datasets \ {input.dataset_id} :
               d \in DOMAIN datasets' /\ datasets'[d] = datasets[d]]_vars

\* An anonymous upload that named the email of u2 has been renamed by u2.
C28_Witness ==
    /\ response.kind = "update_dataset"
    /\ response.status = 200
    /\ input.authorization = "Bearer tok2"
    /\ input.dataset_id \in DOMAIN datasets
    /\ datasets[input.dataset_id].uploader_id = None
    /\ datasets[input.dataset_id].uploader_email = "u2@x.io"
    /\ datasets[input.dataset_id].title = "t2"

(***************************************************************************)
(* The paginated listing: GET /api/datasets.                               *)
(***************************************************************************)
\* get_dataset_count: SELECT COUNT(*) FROM datasets WHERE public [AND category = ?].
get_dataset_count(table, category) ==
    Cardinality({d \in DOMAIN table :
                    /\ table[d].public
                    /\ (category # None /\ category # "") => table[d].category = category})

\* math.ceil(total / limit)
Ceil(total, limit) == (total + limit - 1) \div limit

\* The fields of the listing entry that the row determines.
_format_dataset_metadata(ds) ==
    [id |-> ds.id, title |-> ds.title, category |-> ds.category,
     bbox |-> <<ds.bbox_west, ds.bbox_south, ds.bbox_east, ds.bbox_north>>,
     usage_count |-> ds.query_count + ds.used_in_maps]

\* bbox_parts of list_datasets: the four numbers, NoBBox when the parameter
\* is absent, is not four parts or holds a part that is not a number.
ListBBoxParts(bbox) ==
    IF bbox.kind = "parts" /\ Len(bbox.parts) = 4 THEN bbox.parts ELSE NoBBox

\* list_datasets(category, page, limit, q, bbox, offset): the responses the
\* request can get.  offset is <<>> when the parameter is absent.
list_datasets(table, category, page, limit, q, bbox, offset) ==
    {[kind |-> "list_datasets", status |-> 200,
      datasets |-> [i \in DOMAIN rows |-> _format_dataset_metadata(rows[i])],
      pagination |-> [page |-> page, limit |-> limit,
                      total |-> get_dataset_count(table, category),
                      pages |-> IF get_dataset_count(table, category) > 0
                                THEN IF Ceil(get_dataset_count(table, category), limit) > 1
                                     THEN Ceil(get_dataset_count(table, category), limit)
                                     ELSE 1
                                ELSE 1]] :
        rows \in search_datasets(table, q, category, ListBBoxParts(bbox), limit,
                                 IF offset # <<>> THEN offset[1] ELSE (page - 1) * limit)}

ListTitles == {"t1", "Ab"}

ListCategories == {"other", "boundaries"}

\* The row create_dataset stores for an upload.
ListedRecord(dataset_id, title, category, data) ==
    db_create_dataset(dataset_id, title, category, data, validate_geojson(data),
                      None, None)

\* The rows one upload can leave under an id.
ListedRecords(dataset_id) ==
    {ListedRecord(dataset_id, title, category, data) :
        title \in ListTitles, category \in ListCategories,
        data \in {BodyPoints, BodyLines}}

InitList ==
    /\ now = 0
    /\ ip_requests = NoRequests
    /\ datasets \in {[d \in {1} |-> r] : r \in ListedRecords(1)}
                    \cup {[d \in DatasetIds |-> IF d = 1 THEN r1 ELSE r2] :
                             r1 \in ListedRecords(1), r2 \in ListedRecords(2)}
    /\ response = Idle
    /\ input = NoValue
    /\ output = NoValue
    /\ contributions = <<>>
    /\ points_ledger = <<>>
    /\ calls = <<>>

\* The query parameters of a listing request.
ListRequests ==
    [kind : {"list"}, category : {None, "other"}, q : {None, "ab"},
     bbox : {[kind |-> "absent"], [kind |-> "invalid"],
             [kind |-> "parts", parts |-> <<1, 1, 2, 2>>]},
     page : 1..MaxDatasets, limit : 1..MaxDatasets, offset : {<<>>}]
    \cup [kind : {"list"}, category : {None}, q : {None}, bbox : {[kind |-> "absent"]},
          page : {1}, limit : {1}, offset : {<<1>>}]

ReceiveList ==
    /\ response = Idle
    /\ input' \in ListRequests
    /\ UNCHANGED <<datasets, response, output, contributions, points_ledger, calls, ip_requests, now>>

List ==
    /\ response = Idle
    /\ input.kind = "list"
    /\ response' \in list_datasets(datasets, input.category, input.page, input.limit,
                                   input.q, input.bbox, input.offset)
    /\ UNCHANGED <<datasets, input, output, contributions, points_ledger, calls, ip_requests, now>>

NextList == ReceiveList \/ List \/ Return

SpecList == InitList /\ [][NextList]_vars

\* The public datasets that pass every filter the request supplies.
MatchingAll(request) ==
    {d \in DOMAIN datasets :
        /\ datasets[d].public
        /\ request.category # None => datasets[d].category = request.category
        /\ request.q # None => Like(datasets[d].title, request.q)
        /\ request.bbox.kind = "parts" =>
              /\ datasets[d].bbox_east >= request.bbox.parts[1]
              /\ datasets[d].bbox_west <= request.bbox.parts[3]
              /\ datasets[d].bbox_north >= request.bbox.parts[2]
              /\ datasets[d].bbox_south <= request.bbox.parts[4]}

ListAnswered == response # Idle /\ response.kind = "list_datasets"

\* C29: the pagination of a listing agrees with its filters.  For every
\* catalog and every combination of category, keyword and bbox filters,
\* pagination.total is the number of public datasets that match all the
\* filters supplied, pagination.pages is max(1, ceil(total / limit)), and
\* the page holds matching datasets only, each at most once, so that the
\* pages 1..pages together hold each matching dataset.
C29_PaginationMatchesFilters ==
    ListAnswered =>
        /\ response.pagination.total = Cardinality(MatchingAll(input))
        /\ response.pagination.pages =
              (IF Ceil(response.pagination.total, response.pagination.limit) > 1
               THEN Ceil(response.pagination.total, response.pagination.limit) ELSE 1)
        /\ \A i \in DOMAIN response.datasets :
              response.datasets[i].id \in MatchingAll(input)
        /\ \A i, j \in DOMAIN response.datasets :
              response.datasets[i].id = response.datasets[j].id => i = j
        /\ (input.offset = <<>> /\ input.page <= response.pagination.pages) =>
              Len(response.datasets) =
                 (IF Cardinality(MatchingAll(input)) - (input.page - 1) * input.limit
                        < input.limit
                  THEN IF Cardinality(MatchingAll(input)) < (input.page - 1) * input.limit
                       THEN 0
                       ELSE Cardinality(MatchingAll(input)) - (input.page - 1) * input.limit
                  ELSE input.limit)

\* The same with no keyword and no bbox filter supplied.
C29_CategoryOnly ==
    (ListAnswered /\ input.q = None /\ input.bbox.kind # "parts") =>
        C29_PaginationMatchesFilters

(***************************************************************************)
(* The per-IP rate limiters: api/normalize.py, api/spatial.py and          *)
(* api/datasets.py.  Timestamps are in seconds.                            *)
(***************************************************************************)
NORMALIZE_RATE_LIMIT_WINDOW == 60

NORMALIZE_RATE_LIMIT_MAX == 60

SPATIAL_RATE_LIMIT_WINDOW == 60

SPATIAL_RATE_LIMIT_MAX == 60

DATASET_RATE_LIMIT_WINDOW == 3600

DATASET_RATE_LIMIT_MAX == 20

\* [t for t in log if (t_now - t).total_seconds() < window]
Recent(log, t_now, window) == SelectSeq(log, LAMBDA t : t_now - t < window)

\* The body the three limiters share: the log of ip is pruned to the window
\* (created empty when ip is new), and t_now is appended unless the pruned
\* log holds max_requests entries.
SlidingWindowOffByOne(requests, ip, t_now, window, max_requests) ==
    LET log == IF ip \in DOMAIN requests THEN Recent(requests[ip], t_now, window) ELSE <<>>
    IN [requests |-> [k \in DOMAIN requests \cup {ip} |->
                         IF k # ip THEN requests[k]
                         ELSE IF Len(log) > max_requests THEN log ELSE Append(log, t_now)],
        allowed |-> ~(Len(log) > max_requests)]

SlidingWindow(requests, ip, t_now, window, max_requests) ==
    LET log == IF ip \in DOMAIN requests THEN Recent(requests[ip], t_now, window) ELSE <<>>
    IN [requests |-> [k \in DOMAIN requests \cup {ip} |->
                         IF k # ip THEN requests[k]
                         ELSE IF Len(log) >= max_requests THEN log ELSE Append(log, t_now)],
        allowed |-> ~(Len(log) >= max_requests)]

check_normalize_rate_limit(requests, ip, t_now) ==
    SlidingWindow(requests, ip, t_now, NORMALIZE_RATE_LIMIT_WINDOW, NORMALIZE_RATE_LIMIT_MAX)

check_spatial_rate_limit(requests, ip, t_now) ==
    SlidingWindow(requests, ip, t_now, SPATIAL_RATE_LIMIT_WINDOW, SPATIAL_RATE_LIMIT_MAX)

check_dataset_rate_limit(requests, ip, t_now) ==
    SlidingWindow(requests, ip, t_now, DATASET_RATE_LIMIT_WINDOW, DATASET_RATE_LIMIT_MAX)

MaxTicks == 2

MaxOther == 1

Ips == {"ip1", "ip2"}

Limiters == {"normalize", "spatial", "dataset"}

WindowOf(name) ==
    IF name = "normalize" THEN NORMALIZE_RATE_LIMIT_WINDOW
    ELSE IF name = "spatial" THEN SPATIAL_RATE_LIMIT_WINDOW
    ELSE DATASET_RATE_LIMIT_WINDOW

MaxOf(name) ==
    IF name = "normalize" THEN NORMALIZE_RATE_LIMIT_MAX
    ELSE IF name = "spatial" THEN SPATIAL_RATE_LIMIT_MAX
    ELSE DATASET_RATE_LIMIT_MAX

\* The traffic of a run goes to the endpoints of one limiter; the second
\* client sends until MaxOther of its requests are logged.
Sends(name, ip) ==
    /\ \A other \in Limiters \ {name} : ip_requests[other] = <<>>
    /\ (ip # "ip1" /\ ip \in DOMAIN ip_requests[name]) =>
          Len(ip_requests[name][ip]) < MaxOther

\* The answer of the endpoint: 429 when the check returns False.
Checked(name, ip, allowed) ==
    [kind |-> name, status |-> IF allowed THEN 200 ELSE 429, ip |-> ip]

InitRate ==
    /\ datasets = <<>>
    /\ response = Idle
    /\ input = NoValue
    /\ output = NoValue
    /\ contributions = <<>>
    /\ points_ledger = <<>>
    /\ calls = <<>>
    /\ ip_requests = NoRequests
    /\ now = 0

CheckNormalize ==
    \E ip \in Ips :
        /\ Sends("normalize", ip)
        /\ ip_requests' = [ip_requests EXCEPT !.normalize =
                              check_normalize_rate_limit(@, ip, now).requests]
        /\ response' = Checked("normalize", ip,
                               check_normalize_rate_limit(ip_requests.normalize, ip, now).allowed)
        /\ UNCHANGED <<datasets, input, output, contributions, points_ledger, calls, now>>

CheckSpatial ==
    \E ip \in Ips :
        /\ Sends("spatial", ip)
        /\ ip_requests' = [ip_requests EXCEPT !.spatial =
                              check_spatial_rate_limit(@, ip, now).requests]
        /\ response' = Checked("spatial", ip,
                               check_spatial_rate_limit(ip_requests.spatial, ip, now).allowed)
        /\ UNCHANGED <<datasets, input, output, contributions, points_ledger, calls, now>>

CheckDataset ==
    \E ip \in Ips :
        /\ Sends("dataset", ip)
        /\ ip_requests' = [ip_requests EXCEPT !.dataset =
                              check_dataset_rate_limit(@, ip, now).requests]
        /\ response' = Checked("dataset", ip,
                               check_dataset_rate_limit(ip_requests.dataset, ip, now).allowed)
        /\ UNCHANGED <<datasets, input, output, contributions, points_ledger, calls, now>>

\* datetime.now(timezone.utc) moves on by half the window of the limiter
\* in use.
Tick ==
    /\ \E name \in Limiters :
          /\ ip_requests[name] # <<>>
          /\ now + WindowOf(name) \div 2 <= MaxTicks * (WindowOf(name) \div 2)
          /\ now' = now + WindowOf(name) \div 2
    /\ UNCHANGED <<datasets, response, input, output, contributions, points_ledger,
                   calls, ip_requests>>

NextRate == CheckNormalize \/ CheckSpatial \/ CheckDataset \/ Tick

SpecRate == InitRate /\ [][NextRate]_vars

\* The log of a client, empty when the client has none.
LogOf(requests, ip) == IF ip \in DOMAIN requests THEN requests[ip] ELSE <<>>

\* The number of entries t of the log with lo < t <= hi.
Within(log, lo, hi) == Cardinality({i \in DOMAIN log : lo < log[i] /\ log[i] <= hi})

\* No more than max_requests accepted checks of a client of the limiter
\* fall in an interval shorter than the window.
WindowBounded(name, window, max_requests) ==
    \A ip \in DOMAIN ip_requests[name] :
        \A i \in DOMAIN ip_requests[name][ip] :
            Within(ip_requests[name][ip], ip_requests[name][ip][i] - window,
                   ip_requests[name][ip][i]) <= max_requests

\* A check of the limiter is answered in this step: it is accepted exactly
\* when fewer than max_requests accepted checks of the client are inside the
\* window, an accepted check is logged once, a rejected one adds nothing,
\* and the logs of the other clients stay as they were.
CheckAgrees(name, window, max_requests) ==
    (ip_requests'[name] # ip_requests[name] \/ (response' # response /\ response'.kind = name)) =>
        /\ response'.kind = name
        /\ (response'.status = 200) <=>
              (Within(LogOf(ip_requests[name], response'.ip), now - window, now)
                  < max_requests)
        /\ Within(LogOf(ip_requests'[name], response'.ip), now - 1, now) =
              Within(LogOf(ip_requests[name], response'.ip), now - 1, now)
                 + (IF response'.status = 200 THEN 1 ELSE 0)
        /\ \A t \in {LogOf(ip_requests'[name], response'.ip)[i] :
                        i \in DOMAIN LogOf(ip_requests'[name], response'.ip)} \ {now} :
              Within(LogOf(ip_requests'[name], response'.ip), t - 1, t)
                 <= Within(LogOf(ip_requests[name], response'.ip), t - 1, t)
        /\ \A ip \in Ips \ {response'.ip} :
              /\ ip \in DOMAIN ip_requests'[name] <=> ip \in DOMAIN ip_requests[name]
              /\ LogOf(ip_requests'[name], ip) = LogOf(ip_requests[name], ip)
        /\ \A other \in Limiters \ {name} : ip_requests'[other] = ip_requests[other]

\* C30 as stated: every limiter is a sliding window of 60 s holding at most
\* 60 accepted checks per client.
C30_SlidingWindowOf60 ==
    /\ [](\A name \in Limiters : WindowBounded(name, 60, 60))
    /\ [][\A name \in Limiters : CheckAgrees(name, 60, 60)]_vars

\* C30, amended: per-client sliding-window rate limit, each limiter with its
\* own window and maximum (60 s and 60 for normalization and spatial
\* queries, 3600 s and 20 for dataset creation).  For each client and any
\* sequence of checks with non-decreasing timestamps, the accepted checks in
\* an interval shorter than the window never exceed the maximum; a rejected
\* check adds no entry to the log of the client; clients with different
\* keys do not affect each other; a client is accepted again once fewer
\* than the maximum accepted checks remain inside the window.
C30_SlidingWindowPerLimiter ==
    /\ [](\A name \in Limiters : WindowBounded(name, WindowOf(name), MaxOf(name)))
    /\ [][\A name \in Limiters : CheckAgrees(name, WindowOf(name), MaxOf(name))]_vars

\* A check of the first client is accepted at the end of the window: its
\* log is full and holds entries of the last half window only; the second
\* client has a log of its own.
C30_Witness ==
    /\ response = Checked("normalize", "ip1", TRUE)
    /\ now = NORMALIZE_RATE_LIMIT_WINDOW
    /\ "ip2" \in DOMAIN ip_requests.normalize
    /\ Len(ip_requests.normalize["ip1"]) = NORMALIZE_RATE_LIMIT_MAX
    /\ ip_requests.normalize["ip1"][1] = NORMALIZE_RATE_LIMIT_WINDOW \div 2

====
